---- MODULE Spec2Model ----
(***************************************************************************)
(* Model of the PM2.5 station scripts.                                     *)
(*                                                                         *)
(* Spec        the backend (src/backend.py, the same loop and sink in      *)
(*             src/be.py): the main ingestion loop, the buffered           *)
(*             Realtime-Database sink RTDBSink, process stop and restart.  *)
(* SpecPath    the construction of the sink path of a row, taken alone.    *)
(* SpecHandles the serial and GPIO handles of a process (backend or        *)
(*             src/dashboard.py) from start to exit.                       *)
(* SpecReader  one PMS reader (PMSStreamReader of the backend, PMSReader   *)
(*             of the dashboard) fed with bytes tick by tick.              *)
(* SpecCsv     the daily CSV files of the backend and of src/be.py, which  *)
(*             also hands files to the Drive uploader.                     *)
(* SpecRelay   the relay bank of the dashboard under manual and automatic  *)
(*             control.                                                    *)
(* SpecDrain   RTDBSink driven by any sequence of put and flush calls, and *)
(*             the upload queue of DriveUploader (src/drive_hook.py).      *)
(* SpecDrive   DriveUploader (src/drive_hook.py) taken alone: enqueue,    *)
(*             process_queue, sync_local_csvs and upload_now over files    *)
(*             that change; SpecDriveLive is its queue processed for ever. *)
(* SpecTimer   the after-jobs of the dashboard window until it is closed.  *)
(* SpecRelayLive  the relay bank under timer ticks that never stop.        *)
(*                                                                         *)
(* Time is counted in whole seconds.  The main loop is one thread; its     *)
(* body is split at the points where a signal can end the process:         *)
(* start -> read -> put (one step per RTDBSink.put call) -> sleep -> read. *)
(***************************************************************************)
EXTENDS Integers, Sequences, FiniteSets, TLC

\* ------------------------------------------------------------------ bounds
MaxTicks      == 2   \* iterations of the main loop over all runs
MaxFaults     == 2   \* faults of the environment over all runs: bulk writes
                     \* that fail, seconds spent waiting inside _ref.update,
                     \* restarts of the process

MaxReads      == 3   \* loop iterations of the process whose handles are followed

MaxCalls      == 4   \* calls made on the sink and the upload queue taken
                     \* alone: put, enqueue, process_queue
MaxClock      == 2   \* seconds that pass while the sink taken alone is called
MaxReadCalls  == 3   \* read calls made on the reader taken alone
MaxCsvTicks   == 3   \* loop iterations of the process whose CSV files are followed
MaxCsvRuns    == 2   \* starts of that process
MaxRelayOps   == 3   \* timer ticks and user actions on the relay panel
MaxDriveOps   == 4   \* calls made on the Drive uploader taken alone and
                     \* changes of the files it handles
MaxTimerJobs  == 6   \* after-jobs the dashboard schedules

\* --------------------------------------------------------- configuration
IntervalChoices  == {0, 1}   \* READ_INTERVAL_SEC values (env_int accepts 0)
FlushSecsChoices == {2}      \* RTDB_FLUSH_SECS values
\* <<RTDB_BATCH_SIZE, SINK_MAX_BUFFER>> values: a flush on every put, a cap
\* reached before the batch is full, with an odd and with an even cap
SizeChoices      == {<<1, 2>>, <<3, 1>>, <<3, 2>>}

Readers == {"indoor", "outdoor"}

VARIABLES
    pc,                 \* position of the main thread
    exitBy,             \* how the process ended: none, sigterm, ctrlc, crash, exception
    runs,               \* process starts so far
    now,                \* the clock, in seconds
    READ_INTERVAL_SEC, batch_size, flush_secs, max_buffer, urlSet,
    enabled,            \* RTDBSink.enabled
    ref,                \* RTDBSink._ref is not None
    initFailed,         \* Firebase initialisation raised in this run
    buffer,             \* RTDBSink.buffer
    last_flush,         \* RTDBSink.last_flush
    ts_iso,             \* timestamp of the current tick
    todo,               \* sensors whose put call of this tick is still ahead
    last_ok,            \* per reader: self.last is a reading (not NaN)
    csv_rows,           \* timestamps of the CSV rows appended, in order
    writes,             \* bulk writes issued by this process: [rows, ok, at, end]
    failCount,          \* bulk writes that failed, over all runs
    writeDelay,         \* seconds the main thread spent in sink writes this tick
    stalled             \* seconds spent in sink writes over all runs

\* the inputs and results of the sink-path construction taken alone
VARIABLES
    p_a, p_b,           \* two rows with their device id: [device, ts, sensor]
    p_out               \* paths built so far: [of, t, path], of is "a" or "b"

\* the hardware handles of one process, the backend or the dashboard
VARIABLES
    h_prog,             \* "backend" or "dashboard"
    h_pc,               \* "idle", "start", "loop" or "exited"
    h_exitBy,           \* none, close (window closed), ctrlc, sigterm
    h_ser,              \* per reader: self.ser is an open handle
    h_last,             \* per reader: self.last holds a decoded frame
    h_gpio,             \* the relay controller holds GPIO devices
    h_reads             \* loop iterations / timer ticks so far

\* RTDBSink taken alone, rows numbered in the order they are put
VARIABLES
    d_cfg,              \* [batch_size, max_buffer, flush_secs, enabled]
    d_buffer,           \* RTDBSink.buffer
    d_last_flush,       \* RTDBSink.last_flush
    d_now,              \* the clock
    d_puts,             \* put calls so far: the number of the last row put
    d_call,             \* the last call: [op, row, before, full, wrote, batch]
    d_sent              \* the batches of the bulk writes issued, in order

\* the upload queue of DriveUploader
VARIABLES
    q_enabled,          \* DriveUploader.enabled
    q_queue,            \* DriveUploader._queue
    q_call,             \* the last process_queue call: [before, max_items, attempts]
    q_calls             \* enqueue and process_queue calls so far

\* one PMS reader taken alone
VARIABLES
    r_prog,             \* "backend" (PMSStreamReader) or "dashboard" (PMSReader)
    r_ser,              \* self.ser is an open handle
    r_ok,               \* PMSReader.ok
    r_hasLast,          \* the attribute self.last exists
    r_buf,              \* self.buf
    r_last,             \* self.last
    r_call,             \* the last read call: [op, closed, tried, decoded, raised, ret],
                        \* the buffer before it and the bytes it read, and
                        \* the same of the call before it
    r_reads             \* read calls so far

\* the CSV files of one station
VARIABLES
    c_prog,             \* "backend" (backend.py) or "be" (be.py)
    c_pc,               \* "run" or "exited"
    c_now,              \* the clock
    CURRENT_CSV_FILE,   \* the module global; <<>> is None
    c_files,            \* path -> the lines of the file
    c_gdrive,           \* be.py: the uploader of _gdrive is enabled
    c_queue,            \* be.py: the queue of that uploader
    c_call,             \* the last loop iteration: [op, rotated, prev, path, ts]
    c_ticks, c_runs     \* loop iterations and process starts so far

\* the relay panel of the dashboard
VARIABLES
    auto_enabled, auto_source, auto_on_threshold, auto_hysteresis,
    g_states,           \* RelayController.states
    g_call,             \* the last operation: [op, before, indoor, outdoor]
    g_ops               \* operations so far

\* the Drive uploader of src/drive_hook.py with the files it uploads
VARIABLES
    u_cfg,              \* [enabled, skip_unchanged, use_md5, max_files]
    u_files,            \* file name -> [exists, size, mtime, md5] on the disk
    u_manifest,         \* DriveUploader._manifest: absolute path -> entry
    u_remote,           \* the names of the files the Drive folder holds
    u_queue,            \* DriveUploader._queue
    u_qfile,            \* the queue file: [present, paths]
    u_seen,             \* file name -> the file as its last upload_now that
                        \* returned True found it: [ok, size, mtime, md5]
    u_call,             \* the last call of the uploader
    u_calls             \* calls of the uploader and changes of files so far

\* the timer of the dashboard window
VARIABLES
    t_prog,             \* "dashboard" (src/dashboard.py) or "test" (src/test/dashboard.py)
    t_running,          \* self._running
    t_job,              \* self.job: 0 is None
    t_sched,            \* the after-jobs Tk holds: [cb, id]
    t_exists,           \* the root window is not destroyed
    t_pc,               \* "idle", or "update": _on_timer is inside update_data
    t_closed,           \* on_close has run
    t_late,             \* update_data was entered after on_close had run
    t_tick,             \* self._tick: the update_data calls that came to their end
    t_next              \* the id of the next after-job

pathVars == <<p_a, p_b, p_out>>

relayVars == <<auto_enabled, auto_source, auto_on_threshold, auto_hysteresis,
               g_states, g_call, g_ops>>

driveVars == <<u_cfg, u_files, u_manifest, u_remote, u_queue, u_qfile, u_seen,
               u_call, u_calls>>

timerVars == <<t_prog, t_running, t_job, t_sched, t_exists, t_pc, t_closed,
               t_late, t_tick, t_next>>

csvVars == <<c_prog, c_pc, c_now, CURRENT_CSV_FILE, c_files, c_gdrive, c_queue,
             c_call, c_ticks, c_runs>>

readerVars == <<r_prog, r_ser, r_ok, r_hasLast, r_buf, r_last, r_call, r_reads>>

drainVars == <<d_cfg, d_buffer, d_last_flush, d_now, d_puts, d_call, d_sent,
               q_enabled, q_queue, q_call, q_calls>>

handleVars == <<h_prog, h_pc, h_exitBy, h_ser, h_last, h_gpio, h_reads>>

mainVars == <<pc, exitBy, runs, now, READ_INTERVAL_SEC, batch_size,
          flush_secs, max_buffer, urlSet, enabled, ref, initFailed, buffer,
          last_flush, ts_iso, todo, last_ok, csv_rows, writes,
          failCount, writeDelay, stalled>>

vars == <<mainVars, pathVars, handleVars, drainVars, readerVars, csvVars,
          relayVars, driveVars, timerVars>>

\* what the steps of the main loop leave alone
notMain == <<pathVars, handleVars, drainVars, readerVars, csvVars, relayVars,
    driveVars, timerVars>>

\* what the steps of the other specifications leave alone
notPath == <<mainVars, handleVars, drainVars, readerVars, csvVars, relayVars,
    driveVars, timerVars>>

notHandles == <<mainVars, pathVars, drainVars, readerVars, csvVars, relayVars,
    driveVars, timerVars>>

notDrain == <<mainVars, pathVars, handleVars, readerVars, csvVars, relayVars,
    driveVars, timerVars>>

notReader == <<mainVars, pathVars, handleVars, drainVars, csvVars, relayVars,
    driveVars, timerVars>>

notCsv == <<mainVars, pathVars, handleVars, drainVars, readerVars, relayVars,
    driveVars, timerVars>>

notRelay == <<mainVars, pathVars, handleVars, drainVars, readerVars, csvVars,
    driveVars, timerVars>>

notDrive == <<mainVars, pathVars, handleVars, drainVars, readerVars, csvVars,
    relayVars, timerVars>>

notTimer == <<mainVars, pathVars, handleVars, drainVars, readerVars, csvVars,
    relayVars, driveVars>>

config == <<READ_INTERVAL_SEC, batch_size, flush_secs, max_buffer, urlSet>>

\* ----------------------------------------------------------------- helpers
Range(s) == {s[i] : i \in 1..Len(s)}

Last(s) == s[Len(s)]

\* Python's floor division a // 2 for any integer a
FloorDiv2(a) == IF a >= 0 THEN a \div 2 ELSE -((1 - a) \div 2)

\* the slice s[:-k] taken for s[k:]: the first -k elements
SliceHead(s, k) ==
    IF k = 0 \/ -k >= Len(s) THEN s
    ELSE SubSeq(s, 1, -k)

\* Python's s[k:] for k <= 0: the last -k elements, the whole list for k = 0
SliceFrom(s, k) ==
    IF k = 0 \/ -k >= Len(s) THEN s
    ELSE SubSeq(s, Len(s) + k + 1, Len(s))

\* ------------------------------------------------- timestamps and sink paths
\* An instant is a number of seconds counted from 2025-01-01T00:00:00+07:00.
\* Asia/Bangkok has a fixed offset, so Thai wall-clock fields are a function
\* of the instant alone.
SecsPerDay == 86400

EpochYear == 2025

MonthLen == <<31, 28, 31, 30, 31, 30, 31, 31, 30, 31, 30, 31>>

RECURSIVE MonthDay(_, _)
\* day of the year (0-based) -> <<month, day of month>>
MonthDay(doy, m) ==
    IF m = 12 \/ doy < MonthLen[m] THEN <<m, doy + 1>>
    ELSE MonthDay(doy - MonthLen[m], m + 1)

\* datetime.now(TH_TZ): the Thai wall-clock fields of an instant
ThaiFields(n) ==
    LET doy == (n \div SecsPerDay) % 365
        md  == MonthDay(doy, 1)
        sod == n % SecsPerDay
    IN  [year   |-> EpochYear + (n \div SecsPerDay) \div 365,
         month  |-> md[1], day |-> md[2],
         hour   |-> sod \div 3600,
         minute |-> (sod % 3600) \div 60,
         second |-> sod % 60]

DigitChars == <<"0", "1", "2", "3", "4", "5", "6", "7", "8", "9">>

RECURSIVE Digits(_)
Digits(n) ==
    IF n < 10 THEN <<DigitChars[n + 1]>>
    ELSE Digits(n \div 10) \o <<DigitChars[(n % 10) + 1]>>

\* the format specs :02d and :04d: zero padding up to the width w
PadUnpadded(n, w) == Digits(n)

Pad(n, w) ==
    LET d == Digits(n)
    IN  IF Len(d) >= w THEN d
        ELSE [i \in 1..(w - Len(d)) |-> "0"] \o d

\* ts_dt.isoformat(timespec='seconds'): "YYYY-MM-DDTHH:MM:SS+07:00"
IsoFormat(n) ==
    LET f == ThaiFields(n)
    IN  Pad(f.year, 4) \o <<"-">> \o Pad(f.month, 2) \o <<"-">> \o Pad(f.day, 2)
        \o <<"T">> \o Pad(f.hour, 2) \o <<":">> \o Pad(f.minute, 2)
        \o <<":">> \o Pad(f.second, 2) \o <<"+07:00">>

DigitValue(c) == (CHOOSE i \in 1..10 : DigitChars[i] = c) - 1

IsDigit(c) == \E i \in 1..10 : DigitChars[i] = c

RECURSIVE Number(_)
Number(d) ==
    IF Len(d) = 0 THEN 0
    ELSE 10 * Number(SubSeq(d, 1, Len(d) - 1)) + DigitValue(d[Len(d)])

\* what datetime.fromisoformat accepts among the strings of the model
IsIso(s) ==
    /\ Len(s) = 20
    /\ \A i \in {1, 2, 3, 4, 6, 7, 9, 10, 12, 13, 15, 16, 18, 19} : IsDigit(s[i])
    /\ s[5] = "-" /\ s[8] = "-" /\ s[11] = "T" /\ s[14] = ":" /\ s[17] = ":"
    /\ s[20] = "+07:00"

\* datetime.fromisoformat(ts_iso).astimezone(TH_TZ): the fields of the string;
\* a string that does not parse gives the fields of the flush time instead
FlushFields(ts, t) ==
    IF IsIso(ts)
    THEN [year   |-> Number(SubSeq(ts, 1, 4)),
          month  |-> Number(SubSeq(ts, 6, 7)),
          day    |-> Number(SubSeq(ts, 9, 10)),
          hour   |-> Number(SubSeq(ts, 12, 13)),
          minute |-> Number(SubSeq(ts, 15, 16)),
          second |-> Number(SubSeq(ts, 18, 19))]
    ELSE ThaiFields(t)

\* f"/{self.root}/{DEVICE_ID}/{sensor}/{ymd}/{hms}" for one row at flush time t
SinkPath(root, device, row, t) ==
    LET d   == FlushFields(row.ts, t)
        ymd == Pad(d.year, 4) \o Pad(d.month, 2) \o Pad(d.day, 2)
        hms == Pad(d.hour, 2) \o Pad(d.minute, 2) \o Pad(d.second, 2)
    IN  <<"/", root, "/", device, "/", row.sensor, "/">> \o ymd \o <<"/">> \o hms

RTDB_ROOT == "pm_readings"

DEVICE_ID == "pi"

\* the updates dict of one flush: path -> row, a later row overwriting
Updates(batch, t) ==
    LET paths == {SinkPath(RTDB_ROOT, DEVICE_ID, batch[i], t) : i \in 1..Len(batch)}
    IN  [p \in paths |->
            batch[CHOOSE i \in 1..Len(batch) :
                    /\ SinkPath(RTDB_ROOT, DEVICE_ID, batch[i], t) = p
                    /\ \A j \in (i + 1)..Len(batch) :
                          SinkPath(RTDB_ROOT, DEVICE_ID, batch[j], t) # p]]

\* ------------------------------------------------------------ RTDBSink
\* the cap of the backoff delay the uploader is specified with
BackoffCap == 60

\* flush without its except clause: the error of the bulk write reaches the
\* caller
FlushNoCatch(buf, lf, en, rf, t, ok, d) ==
    IF ~en \/ buf = <<>>
    THEN [buffer |-> buf, last_flush |-> lf, wrote |-> FALSE, batch |-> <<>>,
          failed |-> FALSE, raised |-> FALSE, spent |-> 0]
    ELSE [buffer |-> <<>>, last_flush |-> IF ok THEN t + d ELSE lf,
          wrote |-> rf, batch |-> buf, failed |-> rf /\ ~ok,
          raised |-> rf /\ ~ok, spent |-> IF rf THEN d ELSE 0]

\* RTDBSink.flush at time t; ok and d are the outcome and the duration of
\* the bulk write _ref.update(updates), should one be issued
Flush(buf, lf, en, rf, t, ok, d) ==
    IF ~en \/ buf = <<>>
    THEN [buffer |-> buf, last_flush |-> lf, wrote |-> FALSE, batch |-> <<>>,
          failed |-> FALSE, raised |-> FALSE, spent |-> 0]
    ELSE IF ~rf
    THEN [buffer |-> <<>>, last_flush |-> t, wrote |-> FALSE, batch |-> buf,
          failed |-> FALSE, raised |-> FALSE, spent |-> 0]
    ELSE IF ok
    THEN [buffer |-> <<>>, last_flush |-> t + d, wrote |-> TRUE, batch |-> buf,
          failed |-> FALSE, raised |-> FALSE, spent |-> d]
    ELSE [buffer |-> <<>>, last_flush |-> lf, wrote |-> TRUE, batch |-> buf,
          failed |-> TRUE, raised |-> FALSE, spent |-> d]

\* put flushing only once the buffer is longer than batch_size
PutFlushLate(row, buf, lf, en, rf, bs, fs, mb, t, ok, d) ==
    IF ~en
    THEN [buffer |-> buf, last_flush |-> lf, wrote |-> FALSE, batch |-> <<>>,
          failed |-> FALSE, raised |-> FALSE, spent |-> 0, kept |-> FALSE]
    ELSE
      LET cut == IF Len(buf) >= mb THEN SliceFrom(buf, FloorDiv2(-mb)) ELSE buf
          b2  == Append(cut, row)
      IN  IF Len(b2) > bs \/ (t - lf) >= fs
          THEN [kept |-> TRUE] @@ Flush(b2, lf, en, rf, t, ok, d)
          ELSE [buffer |-> b2, last_flush |-> lf, wrote |-> FALSE,
                batch |-> <<>>, failed |-> FALSE, raised |-> FALSE,
                spent |-> 0, kept |-> TRUE]

\* RTDBSink.put(row) at time t
Put(row, buf, lf, en, rf, bs, fs, mb, t, ok, d) ==
    IF ~en
    THEN [buffer |-> buf, last_flush |-> lf, wrote |-> FALSE, batch |-> <<>>,
          failed |-> FALSE, raised |-> FALSE, spent |-> 0, kept |-> FALSE]
    ELSE
      LET cut == IF Len(buf) >= mb THEN SliceFrom(buf, FloorDiv2(-mb)) ELSE buf
          b2  == Append(cut, row)
      IN  IF Len(b2) >= bs \/ (t - lf) >= fs
          THEN [kept |-> TRUE] @@ Flush(b2, lf, en, rf, t, ok, d)
          ELSE [buffer |-> b2, last_flush |-> lf, wrote |-> FALSE,
                batch |-> <<>>, failed |-> FALSE, raised |-> FALSE,
                spent |-> 0, kept |-> TRUE]

\* __init__ enabling the sink without looking at the URL
SinkInitIgnoresUrl(url, fails) ==
    IF fails
    THEN [enabled |-> FALSE, ref |-> FALSE, initFailed |-> TRUE, raised |-> FALSE]
    ELSE [enabled |-> TRUE, ref |-> TRUE, initFailed |-> FALSE, raised |-> FALSE]

\* RTDBSink.__init__: url is "firebase-admin imported and FIREBASE_RTDB_URL
\* set", fails is "credentials.Certificate / initialize_app / reference raised"
SinkInit(url, fails) ==
    IF ~url THEN [enabled |-> FALSE, ref |-> FALSE, initFailed |-> FALSE, raised |-> FALSE]
    ELSE IF fails
    THEN [enabled |-> FALSE, ref |-> FALSE, initFailed |-> TRUE, raised |-> FALSE]
    ELSE [enabled |-> TRUE, ref |-> TRUE, initFailed |-> FALSE, raised |-> FALSE]

\* ------------------------------------------------------- PMSStreamReader
\* PMSStreamReader.read, by its effect on self.last (a reading or NaN):
\* "idle" is no handle, nothing waiting or no complete frame yet, "frame" a
\* decoded frame, "error" an exception raised by the port
ReadOutcomes == {"idle", "frame", "error"}

LastAfterRead(lastOk, outcome) ==
    IF outcome = "frame" THEN TRUE
    ELSE IF outcome = "idle" THEN lastOk
    ELSE FALSE

\* ------------------------------------------------------------ the process
MainInit ==
    /\ pc = "start" /\ exitBy = "none" /\ runs = 1 /\ now = 0
    /\ READ_INTERVAL_SEC \in IntervalChoices
    /\ \E sz \in SizeChoices : batch_size = sz[1] /\ max_buffer = sz[2]
    /\ flush_secs \in FlushSecsChoices
    /\ urlSet \in BOOLEAN
    /\ enabled = FALSE /\ ref = FALSE /\ initFailed = FALSE
    /\ buffer = <<>> /\ last_flush = 0
    /\ ts_iso = IsoFormat(0) /\ todo = <<>>
    /\ last_ok = [r \in Readers |-> FALSE]
    /\ csv_rows = <<>> /\ writes = <<>>
    /\ failCount = 0 /\ writeDelay = 0 /\ stalled = 0

\* main(): the two readers and the sink are constructed
Startup ==
    /\ UNCHANGED notMain
    /\ pc = "start"
    /\ \E fails \in BOOLEAN :
         LET s == SinkInit(urlSet, fails)
         IN  /\ last_ok' = [r \in Readers |-> FALSE]
             /\ enabled' = s.enabled /\ ref' = s.ref
             /\ initFailed' = s.initFailed
             /\ IF s.raised
                THEN pc' = "exited" /\ exitBy' = "exception"
                ELSE pc' = "read" /\ exitBy' = exitBy
    /\ buffer' = <<>> /\ last_flush' = now
    /\ UNCHANGED <<runs, now, config, ts_iso, todo, csv_rows, writes, failCount,
                   writeDelay, stalled>>

\* one loop iteration up to the CSV row: the three reads, the timestamp,
\* append_csv
ReadStep ==
    /\ UNCHANGED notMain
    /\ pc = "read"
    /\ Len(csv_rows) < MaxTicks
    /\ \E outcome \in [Readers -> ReadOutcomes], bme \in BOOLEAN :
         LET lst == [r \in Readers |-> LastAfterRead(last_ok[r], outcome[r])]
         IN  /\ last_ok' = lst
             /\ todo' = (IF lst["indoor"] THEN <<"indoor">> ELSE <<>>)
                        \o (IF lst["outdoor"] THEN <<"outdoor">> ELSE <<>>)
                        \o (IF bme THEN <<"bme280">> ELSE <<>>)
             /\ pc' = IF todo' = <<>> THEN "sleep" ELSE "put"
    /\ ts_iso' = IsoFormat(now)
    /\ csv_rows' = Append(csv_rows, ts_iso')
    /\ writeDelay' = 0
    /\ UNCHANGED <<exitBy, runs, now, config, enabled, ref, initFailed, buffer,
                   last_flush, writes, failCount, stalled>>

\* faults of the environment so far
Faults == failCount + stalled + (runs - 1)

\* one rtdb_sink.put call of the iteration, with the flush it may run
PutStep ==
    /\ UNCHANGED notMain
    /\ pc = "put" /\ todo # <<>>
    /\ \E ok \in BOOLEAN, d \in 0..(MaxFaults - Faults) :
         LET row == [ts |-> ts_iso, sensor |-> Head(todo)]
             r   == Put(row, buffer, last_flush, enabled, ref, batch_size,
                        flush_secs, max_buffer, now, ok, d)
         IN  /\ r.failed => Faults + r.spent < MaxFaults
             /\ failCount' = IF r.failed THEN failCount + 1 ELSE failCount
             /\ buffer' = r.buffer
             /\ last_flush' = r.last_flush
             /\ now' = now + r.spent
             /\ writeDelay' = writeDelay + r.spent
             /\ stalled' = stalled + r.spent
             /\ writes' = IF r.wrote
                          THEN Append(writes, [rows |-> r.batch, ok |-> ~r.failed,
                                               at |-> now, end |-> now + r.spent])
                          ELSE writes
             /\ IF r.raised
                THEN pc' = "exited" /\ exitBy' = "exception" /\ todo' = todo
                ELSE /\ todo' = Tail(todo)
                     /\ pc' = IF Tail(todo) = <<>> THEN "sleep" ELSE "put"
                     /\ exitBy' = exitBy
    /\ UNCHANGED <<runs, config, enabled, ref, initFailed, ts_iso,
                   last_ok, csv_rows>>

\* time.sleep(READ_INTERVAL_SEC)
SleepStep ==
    /\ UNCHANGED notMain
    /\ pc = "sleep"
    /\ now' = now + READ_INTERVAL_SEC
    /\ pc' = "read"
    /\ UNCHANGED <<exitBy, runs, config, enabled, ref, initFailed,
                   buffer, last_flush, ts_iso, todo, last_ok, csv_rows,
                   writes, failCount, writeDelay, stalled>>

Running == pc \in {"read", "put", "sleep"}

\* SIGTERM (sys.exit(0), then the atexit hook cleanup) or Ctrl+C
\* (KeyboardInterrupt caught in main, then cleanup): cleanup does nothing
Signal ==
    /\ UNCHANGED notMain
    /\ Running
    /\ \E k \in {"sigterm", "ctrlc"} : exitBy' = k
    /\ pc' = "exited"
    /\ todo' = <<>> /\ writeDelay' = 0
    /\ last_ok' = [r \in Readers |-> FALSE]
    /\ UNCHANGED <<runs, now, config, enabled, ref, initFailed, buffer,
                   last_flush, ts_iso, csv_rows, writes, failCount, stalled>>

\* the process is killed or the machine loses power
Crash ==
    /\ UNCHANGED notMain
    /\ Running
    /\ exitBy' = "crash"
    /\ pc' = "exited"
    /\ todo' = <<>> /\ writeDelay' = 0
    /\ last_ok' = [r \in Readers |-> FALSE]
    /\ UNCHANGED <<runs, now, config, enabled, ref, initFailed, buffer,
                   last_flush, ts_iso, csv_rows, writes, failCount, stalled>>

\* a new process: nothing of the old one's memory is left, the CSV files and
\* what reached the database stay
Restart ==
    /\ UNCHANGED notMain
    /\ pc = "exited"
    /\ Faults < MaxFaults
    /\ runs' = runs + 1
    /\ pc' = "start" /\ exitBy' = "none"
    /\ now' = now + 1
    /\ enabled' = FALSE /\ ref' = FALSE /\ initFailed' = FALSE
    /\ buffer' = <<>> /\ last_flush' = now'
    /\ writes' = <<>>
    /\ UNCHANGED <<config, ts_iso, todo, last_ok, csv_rows, failCount,
                   writeDelay, stalled>>

\* the process not started, in one configuration
MainIdle ==
    /\ MainInit
    /\ READ_INTERVAL_SEC = 1 /\ batch_size = 1 /\ max_buffer = 2 /\ ~urlSet

PathIdle == p_a = <<>> /\ p_b = <<>> /\ p_out = {}

HandlesIdle ==
    /\ h_prog = "backend" /\ h_pc = "idle" /\ h_exitBy = "none" /\ h_reads = 0
    /\ h_ser = [r \in Readers |-> FALSE]
    /\ h_last = [r \in Readers |-> FALSE]
    /\ h_gpio = FALSE

\* a reading: NaN, or the three concentrations of a frame
NaN == [nan |-> TRUE, pm1 |-> 0, pm25 |-> 0, pm10 |-> 0]

\* {"pm1": 0.0, "pm25": 0.0, "pm10": 0.0}
ZeroReading == [nan |-> FALSE, pm1 |-> 0, pm25 |-> 0, pm10 |-> 0]

NoRead == [op |-> "none", closed |-> FALSE, tried |-> FALSE, decoded |-> FALSE,
           raised |-> FALSE, ret |-> NaN, before |-> <<>>, bytes |-> <<>>,
           pbefore |-> <<>>, pbytes |-> <<>>]

\* the reader not constructed
ReaderIdle ==
    /\ r_prog = "backend" /\ r_ser = FALSE /\ r_ok = FALSE /\ r_hasLast = FALSE
    /\ r_buf = <<>> /\ r_last = NaN /\ r_call = NoRead /\ r_reads = 0

NoTick == [op |-> "none", rotated |-> FALSE, prev |-> <<>>, path |-> <<>>,
           ts |-> <<>>]

\* no CSV file written
CsvIdle ==
    /\ c_prog = "backend" /\ c_pc = "exited" /\ c_now = 0
    /\ CURRENT_CSV_FILE = <<>> /\ c_files = <<>> /\ c_gdrive = FALSE
    /\ c_queue = <<>> /\ c_call = NoTick /\ c_ticks = 0 /\ c_runs = 0

RELAY_PINS == <<17, 18, 27, 22>>

\* RelayController.__init__ and the Tk variables of PMDashboard.__init__:
\* every relay off, auto mode off, source Indoor, 35.0 and 5.0
RelayIdle ==
    /\ auto_enabled = FALSE /\ auto_source = "Indoor"
    /\ auto_on_threshold = 35 /\ auto_hysteresis = 5
    /\ g_states = [p \in Range(RELAY_PINS) |-> FALSE]
    /\ g_call = [op |-> "none", before |-> [p \in Range(RELAY_PINS) |-> FALSE],
                 indoor |-> 0, outdoor |-> 0]
    /\ g_ops = 0

\* a path: a file name under the CSV directory, given relative to the working
\* directory or absolute
NoPath == [abs |-> TRUE, name |-> ""]

NoDriveCall == [op |-> "none", path |-> NoPath, max_items |-> 0,
                before |-> <<>>, attempts |-> <<>>, oks |-> {}, api |-> <<>>,
                ret |-> "none", mbefore |-> <<>>, sbefore |-> <<>>]

\* no uploader built
DriveIdle ==
    /\ u_cfg = [enabled |-> FALSE, skip_unchanged |-> TRUE, use_md5 |-> FALSE,
                max_files |-> 0]
    /\ u_files = <<>> /\ u_manifest = <<>> /\ u_remote = {} /\ u_queue = <<>>
    /\ u_qfile = [present |-> FALSE, paths |-> <<>>] /\ u_seen = <<>>
    /\ u_call = NoDriveCall /\ u_calls = 0

\* no dashboard window
TimerIdle ==
    /\ t_prog = "dashboard" /\ t_running = FALSE /\ t_job = 0 /\ t_sched = {}
    /\ t_exists = FALSE /\ t_pc = "idle" /\ t_closed = FALSE /\ t_late = FALSE
    /\ t_tick = 0 /\ t_next = 1

\* the sink and the upload queue not called
NoCall == [op |-> "none", row |-> 0, before |-> <<>>, full |-> <<>>,
           wrote |-> FALSE, batch |-> <<>>]

NoQueueCall == [before |-> <<>>, max_items |-> 0, attempts |-> <<>>]

DrainIdle ==
    /\ d_cfg = [batch_size |-> 1, max_buffer |-> 2, flush_secs |-> 2,
                enabled |-> FALSE]
    /\ d_buffer = <<>> /\ d_last_flush = 0 /\ d_now = 0 /\ d_puts = 0
    /\ d_call = NoCall /\ d_sent = <<>>
    /\ q_enabled = FALSE /\ q_queue = <<>> /\ q_call = NoQueueCall /\ q_calls = 0

Init == MainInit /\ PathIdle /\ HandlesIdle /\ DrainIdle /\ ReaderIdle /\ CsvIdle
    /\ RelayIdle /\ DriveIdle /\ TimerIdle

Next ==
    \/ Startup
    \/ ReadStep
    \/ PutStep
    \/ SleepStep
    \/ Signal
    \/ Crash
    \/ Restart

Spec == Init /\ [][Next]_vars

\* ------------------------------------------- the sink path taken alone
\* rows as main builds them: the timestamp is the ISO string of an instant,
\* the sensor one of main's tags; the device id is that of the station
PathDays    == {10, 304}     \* 11 January, 1 November
PathHours   == {1, 11}
PathMinutes == {1, 11}
PathSeconds == {1}
PathInstants ==
    {d * SecsPerDay + h * 3600 + m * 60 + sec :
        d \in PathDays, h \in PathHours, m \in PathMinutes, sec \in PathSeconds}
PathDevices == {"pi", "pi2"}
PathSensors == {"indoor", "bme280"}
PathRows ==
    {[device |-> dev, ts |-> IsoFormat(n), sensor |-> sn] :
        dev \in PathDevices, n \in PathInstants, sn \in PathSensors}
FlushTimes == {0, 90061}

PathInit ==
    /\ p_a \in PathRows /\ p_b \in PathRows
    /\ p_out = {}

\* the path of row "a" is built by a flush at time t
PathOfA ==
    /\ \E t \in FlushTimes :
         p_out' = p_out \cup
            {[of |-> "a", t |-> t,
              path |-> SinkPath(RTDB_ROOT, p_a.device,
                                [ts |-> p_a.ts, sensor |-> p_a.sensor], t)]}
    /\ UNCHANGED <<p_a, p_b, notPath>>

\* the path of row "b" is built by a flush at time t
PathOfB ==
    /\ \E t \in FlushTimes :
         p_out' = p_out \cup
            {[of |-> "b", t |-> t,
              path |-> SinkPath(RTDB_ROOT, p_b.device,
                                [ts |-> p_b.ts, sensor |-> p_b.sensor], t)]}
    /\ UNCHANGED <<p_a, p_b, notPath>>

PathNext == PathOfA \/ PathOfB

InitPath == MainIdle /\ PathInit /\ HandlesIdle /\ DrainIdle /\ ReaderIdle /\ CsvIdle
    /\ RelayIdle /\ DriveIdle /\ TimerIdle

SpecPath == InitPath /\ [][PathNext]_vars

\* C10: the sink path is deterministic and collision-free: every flush of
\* the same row builds the same path, and two rows that differ in device id,
\* sensor tag or timestamp never get the same path.
C10_PathDeterministicInjective ==
    /\ \A x, y \in p_out : x.of = y.of => x.path = y.path
    /\ p_a # p_b => \A x, y \in p_out : x.of # y.of => x.path # y.path

\* two different rows, each flushed at two different times
C10_Witness ==
    /\ p_a # p_b
    /\ \A w \in {"a", "b"} : \A t \in FlushTimes :
          \E x \in p_out : x.of = w /\ x.t = t

\* -------------------------------------- hardware handles and exit paths
\* PMSStreamReader.read of the backend, by its effect on the handle and on
\* self.last: openOk is the outcome of _reopen_if_needed's _open, outcome
\* what the port delivers
PMSRead(open, lastOk, openOk, outcome) ==
    LET o == IF open THEN TRUE ELSE openOk
    IN  IF ~o THEN [ser |-> FALSE, last |-> lastOk]
        ELSE IF outcome = "error" THEN [ser |-> FALSE, last |-> FALSE]
        ELSE [ser |-> TRUE, last |-> LastAfterRead(lastOk, outcome)]

\* PMSReader.read_once of the dashboard, by its effect on the handle: a
\* reader that did not open is never opened again, an error of the port is
\* printed and the handle kept
DashRead(open, lastOk, openOk, outcome) ==
    IF ~open THEN [ser |-> FALSE, last |-> lastOk]
    ELSE [ser |-> TRUE, last |-> IF outcome = "frame" THEN TRUE ELSE lastOk]

HandlesInit ==
    /\ h_prog \in {"backend", "dashboard"}
    /\ h_pc = "start" /\ h_exitBy = "none" /\ h_reads = 0
    /\ h_ser = [r \in Readers |-> FALSE]
    /\ h_last = [r \in Readers |-> FALSE]
    /\ h_gpio = FALSE

\* the readers are constructed (each serial.Serial may fail); the dashboard
\* also constructs its RelayController, which holds GPIO devices unless it
\* falls back to the mock backend
HStartup ==
    /\ h_pc = "start"
    /\ h_ser' \in [Readers -> BOOLEAN]
    /\ h_gpio' \in (IF h_prog = "dashboard" THEN BOOLEAN ELSE {FALSE})
    /\ h_pc' = "loop"
    /\ UNCHANGED <<h_prog, h_exitBy, h_last, h_reads, notHandles>>

\* one loop iteration (backend) or timer tick (dashboard): both readers read
HRead ==
    /\ h_pc = "loop"
    /\ h_reads < MaxReads
    /\ \E openOk \in [Readers -> BOOLEAN], outcome \in [Readers -> ReadOutcomes] :
         LET rd(r) == IF h_prog = "backend"
                      THEN PMSRead(h_ser[r], h_last[r], openOk[r], outcome[r])
                      ELSE DashRead(h_ser[r], h_last[r], openOk[r], outcome[r])
         IN  /\ h_ser' = [r \in Readers |-> rd(r).ser]
             /\ h_last' = [r \in Readers |-> rd(r).last]
    /\ h_reads' = h_reads + 1
    /\ UNCHANGED <<h_prog, h_pc, h_exitBy, h_gpio, notHandles>>

\* the dashboard window is closed: on_close closes both readers and cleans
\* the relays up
HWindowClose ==
    /\ h_pc = "loop" /\ h_prog = "dashboard"
    /\ h_ser' = [r \in Readers |-> FALSE]
    /\ h_gpio' = FALSE
    /\ h_pc' = "exited" /\ h_exitBy' = "close"
    /\ UNCHANGED <<h_prog, h_last, h_reads, notHandles>>

\* Ctrl+C: the backend catches KeyboardInterrupt and leaves main, its atexit
\* hook cleanup does nothing; the dashboard has no handler, mainloop is left
\* by the exception and on_close does not run
HCtrlC ==
    /\ h_pc = "loop"
    /\ h_pc' = "exited" /\ h_exitBy' = "ctrlc"
    /\ UNCHANGED <<h_prog, h_ser, h_last, h_gpio, h_reads, notHandles>>

\* SIGTERM: the backend's handler calls sys.exit(0), then cleanup, which
\* does nothing; the dashboard installs no handler and is killed
HSigterm ==
    /\ h_pc = "loop"
    /\ h_pc' = "exited" /\ h_exitBy' = "sigterm"
    /\ UNCHANGED <<h_prog, h_ser, h_last, h_gpio, h_reads, notHandles>>

HandlesNext == HStartup \/ HRead \/ HWindowClose \/ HCtrlC \/ HSigterm

InitHandles == MainIdle /\ PathIdle /\ HandlesInit /\ DrainIdle /\ ReaderIdle /\ CsvIdle
    /\ RelayIdle /\ DriveIdle /\ TimerIdle

SpecHandles == InitHandles /\ [][HandlesNext]_vars

\* C6: on every exit path every serial handle and every GPIO handle the
\* process opened is released by the time it has exited.
C6_HandlesReleasedOnExit ==
    h_pc = "exited" => (\A r \in Readers : ~h_ser[r]) /\ ~h_gpio

\* ------------------------------------------------- a PMS reader taken alone
\* a frame is 32 bytes: the header 0x42 0x4D, and the ATM concentrations as
\* 16-bit big-endian numbers in bytes 10..15 (counted from 0)
FrameLen == 32

HeaderBytes == <<66, 77>>

\* the frame the sensor sends for three concentrations
Frame(pm1, pm25, pm10) ==
    HeaderBytes \o [i \in 1..8 |-> 0]
      \o <<pm1 \div 256, pm1 % 256, pm25 \div 256, pm25 % 256,
           pm10 \div 256, pm10 % 256>>
      \o [i \in 1..16 |-> 0]

\* buf.find(b"\x42\x4D") counted from 1, 0 when the header is not there
Find(buf) ==
    LET hits == {i \in 1..(Len(buf) - 1) :
                    buf[i] = HeaderBytes[1] /\ buf[i + 1] = HeaderBytes[2]}
    IN  IF hits = {} THEN 0
        ELSE CHOOSE i \in hits : \A j \in hits : i <= j

\* (pkt[10] << 8) | pkt[11] and so on, pkt counted from 1 here
Decode(pkt) ==
    [nan  |-> FALSE,
     pm1  |-> pkt[11] * 256 + pkt[12],
     pm25 |-> pkt[13] * 256 + pkt[14],
     pm10 |-> pkt[15] * 256 + pkt[16]]

\* the while loop of PMSStreamReader.read: at most one frame is decoded
StreamParse(buf, last) ==
    LET i == Find(buf)
    IN  IF i = 0
        THEN [buf |-> <<>>, last |-> last, decoded |-> FALSE]
        ELSE IF Len(buf) - (i - 1) < FrameLen
        THEN [buf |-> SubSeq(buf, i, Len(buf)), last |-> last, decoded |-> FALSE]
        ELSE [buf |-> SubSeq(buf, i + FrameLen, Len(buf)),
              last |-> Decode(SubSeq(buf, i, i + FrameLen - 1)),
              decoded |-> TRUE]

RECURSIVE ParseFrames(_, _, _)
\* PMSReader._parse_frames: every complete frame of the buffer is decoded
ParseFrames(buf, last, decoded) ==
    LET j == Find(buf)
    IN  IF j = 0
        THEN [buf |-> IF Len(buf) > 1 THEN SubSeq(buf, Len(buf), Len(buf)) ELSE buf,
              last |-> last, decoded |-> decoded]
        ELSE IF Len(buf) - (j - 1) < FrameLen
        THEN [buf |-> SubSeq(buf, j, Len(buf)), last |-> last, decoded |-> decoded]
        ELSE ParseFrames(SubSeq(buf, j + FrameLen, Len(buf)),
                         Decode(SubSeq(buf, j, j + FrameLen - 1)), TRUE)

\* PMSStreamReader.read: openOk is the outcome of serial.Serial in _open,
\* port what the device does: an exception, or the bytes waiting
StreamRead(ser, buf, last, openOk, port) ==
    LET o == ser \/ openOk
    IN  IF ~o
        THEN [ser |-> FALSE, buf |-> buf, last |-> last, ret |-> last,
              raised |-> FALSE, decoded |-> FALSE, tried |-> TRUE,
              got |-> <<>>]
        ELSE IF port.err
        THEN [ser |-> FALSE, buf |-> buf, last |-> NaN, ret |-> NaN,
              raised |-> FALSE, decoded |-> FALSE, tried |-> TRUE,
              got |-> <<>>]
        ELSE IF port.bytes = <<>>
        THEN [ser |-> TRUE, buf |-> buf, last |-> last, ret |-> last,
              raised |-> FALSE, decoded |-> FALSE, tried |-> TRUE,
              got |-> <<>>]
        ELSE LET r == StreamParse(buf \o port.bytes, last)
             IN  [ser |-> TRUE, buf |-> r.buf, last |-> r.last, ret |-> r.last,
                  raised |-> FALSE, decoded |-> r.decoded, tried |-> TRUE,
                  got |-> port.bytes]

\* PMSReader.read_once: a reader whose port did not open has no attribute
\* last, and "return self.last" raises AttributeError
ReadOnce(ok, hasLast, buf, last, port) ==
    IF ~ok
    THEN [buf |-> buf, last |-> last, ret |-> last, raised |-> ~hasLast,
          decoded |-> FALSE, tried |-> FALSE, got |-> <<>>]
    ELSE IF port.err \/ port.bytes = <<>>
    THEN [buf |-> buf, last |-> last, ret |-> last, raised |-> FALSE,
          decoded |-> FALSE, tried |-> TRUE, got |-> <<>>]
    ELSE LET r == ParseFrames(buf \o port.bytes, last, FALSE)
         IN  [buf |-> r.buf, last |-> r.last, ret |-> r.last, raised |-> FALSE,
              decoded |-> r.decoded, tried |-> TRUE, got |-> port.bytes]

\* what the port holds when a tick reads it: nothing, bytes without a
\* header, the first 10 bytes of a frame, its other 22 bytes, a whole frame
\* (of zeros too), a frame after a stray byte, a stray byte and the first
\* byte of a frame, the other 31 bytes of a frame
ChunkChoices ==
    {<<>>, <<1, 2>>,
     SubSeq(Frame(3, 7, 9), 1, 10), SubSeq(Frame(3, 7, 9), 11, FrameLen),
     Frame(3, 7, 9), Frame(0, 0, 0), <<1>> \o Frame(2, 300, 4),
     <<1>> \o SubSeq(Frame(3, 7, 9), 1, 1), SubSeq(Frame(3, 7, 9), 2, FrameLen)}

PortOutcomes ==
    {[err |-> TRUE, bytes |-> <<>>]} \cup {[err |-> FALSE, bytes |-> c] : c \in ChunkChoices}

\* the reader after its constructor, the port opened or not
ReaderInit ==
    /\ r_prog \in {"backend", "dashboard"}
    /\ r_ser \in BOOLEAN
    /\ r_ok = (r_prog = "dashboard" /\ r_ser)
    /\ r_hasLast = (r_prog = "backend" \/ r_ser)
    /\ r_buf = <<>>
    /\ r_last = IF r_prog = "dashboard" /\ r_ser THEN ZeroReading ELSE NaN
    /\ r_call = NoRead /\ r_reads = 0

\* one tick reads the sensor: reader.read() or reader.read_once()
RRead ==
    /\ r_reads < MaxReadCalls
    /\ \E openOk \in BOOLEAN, port \in PortOutcomes :
         IF r_prog = "backend"
         THEN LET r == StreamRead(r_ser, r_buf, r_last, openOk, port)
              IN  /\ r_ser' = r.ser /\ r_buf' = r.buf /\ r_last' = r.last
                  /\ r_call' = [op |-> "read", closed |-> ~r_ser, tried |-> r.tried,
                                decoded |-> r.decoded, raised |-> r.raised,
                                ret |-> r.ret, before |-> r_buf,
                                bytes |-> r.got, pbefore |-> r_call.before,
                                pbytes |-> r_call.bytes]
         ELSE LET r == ReadOnce(r_ok, r_hasLast, r_buf, r_last, port)
              IN  /\ r_ser' = r_ser /\ r_buf' = r.buf /\ r_last' = r.last
                  /\ r_call' = [op |-> "read", closed |-> ~r_ser, tried |-> r.tried,
                                decoded |-> r.decoded, raised |-> r.raised,
                                ret |-> r.ret, before |-> r_buf,
                                bytes |-> r.got, pbefore |-> r_call.before,
                                pbytes |-> r_call.bytes]
    /\ r_reads' = r_reads + 1
    /\ UNCHANGED <<r_prog, r_ok, r_hasLast, notReader>>

ReaderNext == RRead

InitReader == MainIdle /\ PathIdle /\ HandlesIdle /\ DrainIdle /\ ReaderInit /\ CsvIdle
    /\ RelayIdle /\ DriveIdle /\ TimerIdle

SpecReader == InitReader /\ [][ReaderNext]_vars

\* C14: on a tick in which the reader decodes no new complete frame (nothing
\* waiting, no header in the buffered bytes, fewer than 32 bytes after the
\* header) the reading returned is the unavailable marker NaN, never zero.
C14_NoFrameGivesNaN ==
    (r_call.op = "read" /\ ~r_call.decoded /\ ~r_call.raised)
      => r_call.ret = NaN

\* C15: a sensor that cannot be opened or whose read fails is never fatal:
\* the read of a tick returns a reading without raising, and a tick that
\* finds the device closed tries it again.
C15_SensorFailureNotFatal ==
    r_call.op = "read"
      => /\ ~r_call.raised
         /\ r_call.closed => r_call.tried

\* ------------------------------------ the sink and the upload queue alone
\* <<RTDB_BATCH_SIZE, SINK_MAX_BUFFER>> values of the sink taken alone: those
\* of the main loop, a cap of 3 under a larger batch, no batch size
DrainSizes == SizeChoices \cup {<<4, 3>>, <<0, 2>>}

DriveFiles == {"d1.csv", "d2.csv", "d3.csv"}

\* what self.upload_now(p) does inside process_queue
UploadOutcomes == {"ok", "false", "raise"}

\* max_items of a process_queue call (50 by default, 25 at exit)
MaxItemsChoices == {1, 2}

\* what _load_queue finds in the queue file at start
QueueLoads == {<<>>, <<"d2.csv", "d1.csv">>}

\* enqueue without the test "p not in self._queue"
EnqueueNoCheck(queue, path, exists) ==
    IF exists THEN Append(queue, path) ELSE queue

\* DriveUploader.enqueue(path): exists is os.path.exists(p)
Enqueue(queue, path, exists) ==
    IF exists /\ path \notin Range(queue) THEN Append(queue, path) ELSE queue

RECURSIVE ProcessFromReversed(_, _, _, _)
\* the for loop of process_queue taking the queue from its tail
ProcessFromReversed(q, processed, max_items, outcome) ==
    IF q = <<>> THEN [newq |-> <<>>, attempts |-> <<>>]
    ELSE
      LET p    == Last(q)
          rest == SubSeq(q, 1, Len(q) - 1)
      IN  IF processed >= max_items
          THEN LET r == ProcessFromReversed(rest, processed, max_items, outcome)
               IN  [newq |-> <<p>> \o r.newq, attempts |-> r.attempts]
          ELSE LET ok == outcome[p] = "ok"
                   r  == ProcessFromReversed(rest,
                            IF ok THEN processed + 1 ELSE processed,
                            max_items, outcome)
               IN  [newq |-> IF ok THEN r.newq ELSE <<p>> \o r.newq,
                    attempts |-> <<p>> \o r.attempts]

RECURSIVE ProcessFrom(_, _, _, _)
\* the for loop of process_queue over the rest q of the queue: the new queue
\* and the files handed to upload_now, in order
ProcessFrom(q, processed, max_items, outcome) ==
    IF q = <<>> THEN [newq |-> <<>>, attempts |-> <<>>]
    ELSE
      LET p == Head(q)
      IN  IF processed >= max_items
          THEN LET r == ProcessFrom(Tail(q), processed, max_items, outcome)
               IN  [newq |-> <<p>> \o r.newq, attempts |-> r.attempts]
          ELSE LET ok == outcome[p] = "ok"
                   r  == ProcessFrom(Tail(q),
                            IF ok THEN processed + 1 ELSE processed,
                            max_items, outcome)
               IN  [newq |-> IF ok THEN r.newq ELSE <<p>> \o r.newq,
                    attempts |-> <<p>> \o r.attempts]

\* DriveUploader.process_queue(max_items)
ProcessQueue(en, queue, max_items, outcome) ==
    IF ~en \/ queue = <<>> THEN [newq |-> queue, attempts |-> <<>>]
    ELSE ProcessFrom(queue, 0, max_items, outcome)

\* a sink after RTDBSink.__init__ (enabled or not) and an uploader after
\* DriveUploader.__init__ with an empty queue file
DrainInit ==
    /\ \E sz \in DrainSizes, fs \in FlushSecsChoices, en \in BOOLEAN :
         d_cfg = [batch_size |-> sz[1], max_buffer |-> sz[2],
                  flush_secs |-> fs, enabled |-> en]
    /\ d_buffer = <<>> /\ d_last_flush = 0 /\ d_now = 0 /\ d_puts = 0
    /\ d_call = NoCall /\ d_sent = <<>>
    /\ q_enabled \in BOOLEAN
    /\ q_queue \in (IF q_enabled THEN QueueLoads ELSE {<<>>})
    /\ q_call = NoQueueCall /\ q_calls = 0

\* rtdb_sink.put(row) with the next row
DPut ==
    /\ d_puts + q_calls < MaxCalls
    /\ \E ok \in BOOLEAN :
         LET row == d_puts + 1
             r   == Put(row, d_buffer, d_last_flush, d_cfg.enabled, d_cfg.enabled,
                        d_cfg.batch_size, d_cfg.flush_secs, d_cfg.max_buffer,
                        d_now, ok, 0)
         IN  /\ d_buffer' = r.buffer
             /\ d_last_flush' = r.last_flush
             /\ d_call' = [op |-> "put", row |-> row, before |-> d_buffer,
                           full |-> Len(d_buffer) >= d_cfg.max_buffer,
                           wrote |-> r.wrote, batch |-> r.batch]
             /\ d_sent' = IF r.wrote THEN Append(d_sent, r.batch) ELSE d_sent
    /\ d_puts' = d_puts + 1
    /\ UNCHANGED <<d_cfg, d_now, q_enabled, q_queue, q_call, q_calls, notDrain>>

\* rtdb_sink.flush()
DFlush ==
    /\ d_call.op # "flush"
    /\ \E ok \in BOOLEAN :
         LET r == Flush(d_buffer, d_last_flush, d_cfg.enabled, d_cfg.enabled,
                        d_now, ok, 0)
         IN  /\ d_buffer' = r.buffer
             /\ d_last_flush' = r.last_flush
             /\ d_call' = [op |-> "flush", row |-> 0, before |-> d_buffer,
                           full |-> FALSE, wrote |-> r.wrote, batch |-> r.batch]
             /\ d_sent' = IF r.wrote THEN Append(d_sent, r.batch) ELSE d_sent
    /\ UNCHANGED <<d_cfg, d_now, d_puts, q_enabled, q_queue, q_call, q_calls,
                   notDrain>>

\* a second passes between two calls
DTick ==
    /\ d_now < MaxClock
    /\ d_now' = d_now + 1
    /\ UNCHANGED <<d_cfg, d_buffer, d_last_flush, d_puts, d_call, d_sent,
                   q_enabled, q_queue, q_call, q_calls, notDrain>>

\* uploader.enqueue(path)
QEnqueue ==
    /\ d_puts + q_calls < MaxCalls
    /\ \E f \in DriveFiles, exists \in BOOLEAN :
         q_queue' = Enqueue(q_queue, f, exists)
    /\ q_calls' = q_calls + 1
    /\ UNCHANGED <<d_cfg, d_buffer, d_last_flush, d_now, d_puts, d_call, d_sent,
                   q_enabled, q_call, notDrain>>

\* uploader.process_queue(max_items)
QProcess ==
    /\ d_puts + q_calls < MaxCalls
    /\ \E m \in MaxItemsChoices, outcome \in [DriveFiles -> UploadOutcomes] :
         LET r == ProcessQueue(q_enabled, q_queue, m, outcome)
         IN  /\ q_queue' = r.newq
             /\ q_call' = [before |-> q_queue, max_items |-> m,
                           attempts |-> r.attempts]
    /\ q_calls' = q_calls + 1
    /\ UNCHANGED <<d_cfg, d_buffer, d_last_flush, d_now, d_puts, d_call, d_sent,
                   q_enabled, notDrain>>

DrainNext == DPut \/ DFlush \/ DTick \/ QEnqueue \/ QProcess

InitDrain == MainIdle /\ PathIdle /\ HandlesIdle /\ DrainInit /\ ReaderIdle /\ CsvIdle
    /\ RelayIdle /\ DriveIdle /\ TimerIdle

SpecDrain == InitDrain /\ [][DrainNext]_vars

\* ---------------------------------------------------- the daily CSV files
CSV_DIR == "csv_logs"

\* csv_path_for(dt): os.path.join(CSV_DIR, f"{d.isoformat()}.csv") with d the
\* Thai date of the instant n
csv_path_for(n) ==
    LET f == ThaiFields(n)
    IN  <<CSV_DIR, "/">> \o Pad(f.year, 4) \o <<"-">> \o Pad(f.month, 2)
          \o <<"-">> \o Pad(f.day, 2) \o <<".csv">>

\* the lines of a file: the header row, or a data row with its timestamp
HeaderLine == [header |-> TRUE, ts |-> <<>>]

RowLine(ts) == [header |-> FALSE, ts |-> ts]

\* the lines of the file at path, none when it does not exist
FileOf(files, path) == IF path \in DOMAIN files THEN files[path] ELSE <<>>

\* open(path, mode='a') and one writerow
WriteLine(files, path, line) ==
    [q \in (DOMAIN files) \cup {path} |->
        IF q = path THEN Append(FileOf(files, path), line) ELSE files[q]]

\* ensure_csv_header without the test of f.tell()
ensure_csv_header_always(files, path) == WriteLine(files, path, HeaderLine)

\* ensure_csv_header(path): the header is written when f.tell() == 0
ensure_csv_header(files, path) ==
    IF FileOf(files, path) = <<>> THEN WriteLine(files, path, HeaderLine)
    ELSE files

\* append_csv(path, row)
append_csv(files, path, ts) == WriteLine(files, path, RowLine(ts))

\* be.py's module global _UPLOADER is set to None and assigned nowhere else
UploaderIsSet == FALSE

\* max_items of the process_queue calls: at exit, and by default
FinalizeMaxItems == 25

DefaultMaxItems == 50

RECURSIVE EnqueueAll(_, _)
\* the for loop of sync_local_csvs over the files it found changed
EnqueueAll(queue, paths) ==
    IF paths = <<>> THEN queue
    ELSE EnqueueAll(Enqueue(queue, Head(paths), TRUE), Tail(paths))

\* the files sync_local_csvs finds changed, in the order of its listing
SyncLists(files) ==
    {sq \in UNION {[1..k -> DOMAIN files] : k \in 0..Cardinality(DOMAIN files)} :
        \A i, j \in 1..Len(sq) : sq[i] = sq[j] => i = j}

\* the clock at the first start: 28 February, 23:59:58
CsvStartTimes == {59 * SecsPerDay - 2}

\* the time from one loop iteration to the next; the wall clock may be set
\* back
CsvDeltas == {1, SecsPerDay, -SecsPerDay}

\* the module is loaded: be.py builds its uploader, which syncs and drains
CsvStartOf(prog, gdrive, files, queue, sq, o) ==
    IF prog = "be" /\ gdrive
    THEN ProcessQueue(TRUE, EnqueueAll(queue, sq), DefaultMaxItems,
                      [f \in Range(EnqueueAll(queue, sq)) |-> o]).newq
    ELSE queue

CsvInit ==
    /\ c_prog \in {"backend", "be"}
    /\ c_pc = "exited"
    /\ c_now \in CsvStartTimes
    /\ CURRENT_CSV_FILE = <<>> /\ c_files = <<>>
    /\ c_gdrive \in (IF c_prog = "be" THEN BOOLEAN ELSE {FALSE})
    /\ c_queue = <<>> /\ c_call = NoTick /\ c_ticks = 0 /\ c_runs = 0

\* the process starts: CURRENT_CSV_FILE = None
CsvStart ==
    /\ c_pc = "exited" /\ c_runs < MaxCsvRuns
    /\ \E sq \in SyncLists(c_files), o \in UploadOutcomes :
         c_queue' = CsvStartOf(c_prog, c_gdrive, c_files, c_queue, sq, o)
    /\ CURRENT_CSV_FILE' = <<>>
    /\ c_pc' = "run" /\ c_runs' = c_runs + 1
    /\ UNCHANGED <<c_prog, c_now, c_files, c_gdrive, c_call, c_ticks, notCsv>>

\* one iteration of the main loop: the daily rotation, the CSV row, the sleep
CsvTick ==
    /\ c_pc = "run" /\ c_ticks < MaxCsvTicks
    /\ LET ts_dt      == c_now
           path_today == csv_path_for(ts_dt)
           rotated    == CURRENT_CSV_FILE # path_today
           withHeader == IF rotated THEN ensure_csv_header(c_files, path_today)
                         ELSE c_files
       IN  /\ c_queue' = IF rotated /\ c_prog = "be" /\ UploaderIsSet
                            /\ c_gdrive /\ CURRENT_CSV_FILE # <<>>
                         THEN Enqueue(c_queue, CURRENT_CSV_FILE, TRUE)
                         ELSE c_queue
           /\ CURRENT_CSV_FILE' = path_today
           /\ c_files' = append_csv(withHeader, path_today, IsoFormat(ts_dt))
           /\ c_call' = [op |-> "tick", rotated |-> rotated,
                         prev |-> CURRENT_CSV_FILE, path |-> path_today,
                         ts |-> IsoFormat(ts_dt)]
    /\ \E dt \in CsvDeltas : c_now' = c_now + dt
    /\ c_ticks' = c_ticks + 1
    /\ UNCHANGED <<c_prog, c_pc, c_gdrive, c_runs, notCsv>>

\* SIGTERM or Ctrl+C: cleanup; be.py's gdrive_finalize enqueues the current
\* file and drains the queue
CsvExit ==
    /\ c_pc = "run"
    /\ \E o \in UploadOutcomes :
         c_queue' =
            IF c_prog = "be" /\ c_gdrive
            THEN LET q == Enqueue(c_queue, CURRENT_CSV_FILE, CURRENT_CSV_FILE # <<>>)
                 IN  ProcessQueue(TRUE, q, FinalizeMaxItems,
                                  [f \in Range(q) |-> o]).newq
            ELSE c_queue
    /\ c_pc' = "exited"
    /\ UNCHANGED <<c_prog, c_now, CURRENT_CSV_FILE, c_files, c_gdrive, c_call,
                   c_ticks, c_runs, notCsv>>

CsvNext == CsvStart \/ CsvTick \/ CsvExit

InitCsv == MainIdle /\ PathIdle /\ HandlesIdle /\ DrainIdle /\ ReaderIdle /\ CsvInit
    /\ RelayIdle /\ DriveIdle /\ TimerIdle

SpecCsv == InitCsv /\ [][CsvNext]_vars

\* the date in the name of the file at path, and the date of a timestamp
PathDate(path) == SubSeq(path, 3, 12)

RowDate(ts) == SubSeq(ts, 1, 10)

\* C18: daily rotation by Thai date: every CSV row is appended to the file
\* named after the Thai calendar date of its own timestamp, and every file
\* starts with the header row, written exactly once, also across restarts
\* on the same day.
C18_DailyRotation ==
    /\ \A path \in DOMAIN c_files :
          LET f == c_files[path]
          IN  /\ f # <<>> /\ f[1] = HeaderLine
              /\ \A i \in 2..Len(f) :
                    ~f[i].header /\ RowDate(f[i].ts) = PathDate(path)
    /\ c_call.op = "tick"
          => /\ Last(FileOf(c_files, c_call.path)) = RowLine(c_call.ts)
             /\ RowDate(c_call.ts) = PathDate(c_call.path)

\* a file written by two runs of the process, and a second file after it
C18_Witness ==
    /\ c_runs = 2 /\ c_call.op = "tick" /\ c_call.rotated /\ c_call.prev # <<>>
    /\ Len(FileOf(c_files, c_call.prev)) = 3

\* C20: in be.py, when the daily CSV file rotates to a new date, the file of
\* the previous day is enqueued for Drive upload.
C20_RotationEnqueuesPrevious ==
    (c_prog = "be" /\ c_gdrive /\ c_call.op = "tick" /\ c_call.rotated
       /\ c_call.prev # <<>>)
      => c_call.prev \in Range(c_queue)

\* ------------------------------------------------------- the relay panel
Max(a, b) == IF a >= b THEN a ELSE b

\* RelayController.set_all(state)
set_all(states, state) == [p \in DOMAIN states |-> state]

\* RelayController.toggle(pin)
toggle(states, pin) == [states EXCEPT ![pin] = ~states[pin]]

\* _auto_control comparing with the on threshold whatever the relays' state
auto_control_no_hysteresis(auto, source, on_th, hyster, states, indoor, outdoor) ==
    IF ~auto THEN states
    ELSE
      LET pm == IF source = "Indoor" THEN indoor ELSE outdoor
      IN  set_all(states, pm >= on_th)

\* PMDashboard._auto_control(indoor, outdoor): the relay states it leaves
auto_control(auto, source, on_th, hyster, states, indoor, outdoor) ==
    IF ~auto THEN states
    ELSE
      LET pm           == IF source = "Indoor" THEN indoor ELSE outdoor
          off_th       == Max(0, on_th - hyster)
          currently_on == \E p \in DOMAIN states : states[p]
          desired_on   == IF ~currently_on THEN pm >= on_th ELSE pm >= off_th
      IN  set_all(states, desired_on)

\* values of the controls of the panel, and PM2.5 readings around them
ThresholdChoices == {3, 35}

HysteresisChoices == {5}

Pm25Choices == {0, 2, 3, 30, 34, 35}

\* a timer tick: update_data ends with _auto_control(indoor, outdoor)
RelayTick ==
    /\ g_ops < MaxRelayOps
    /\ \E indoor \in Pm25Choices, outdoor \in Pm25Choices :
         /\ g_states' = auto_control(auto_enabled, auto_source, auto_on_threshold,
                                     auto_hysteresis, g_states, indoor, outdoor)
         /\ g_call' = [op |-> "tick", before |-> g_states, indoor |-> indoor,
                       outdoor |-> outdoor]
    /\ g_ops' = g_ops + 1
    /\ UNCHANGED <<auto_enabled, auto_source, auto_on_threshold, auto_hysteresis,
                   notRelay>>

\* the user presses the button of one relay: _toggle_relay(pin)
RelayToggle ==
    /\ g_ops < MaxRelayOps
    /\ \E p \in Range(RELAY_PINS) : g_states' = toggle(g_states, p)
    /\ g_call' = [g_call EXCEPT !.op = "toggle", !.before = g_states]
    /\ g_ops' = g_ops + 1
    /\ UNCHANGED <<auto_enabled, auto_source, auto_on_threshold, auto_hysteresis,
                   notRelay>>

\* the user changes the controls of the automatic mode
RelayConfig ==
    /\ g_ops < MaxRelayOps
    /\ auto_enabled' \in BOOLEAN
    /\ auto_source' \in {"Indoor", "Outdoor"}
    /\ auto_on_threshold' \in ThresholdChoices
    /\ auto_hysteresis' \in HysteresisChoices
    /\ g_call' = [g_call EXCEPT !.op = "config", !.before = g_states]
    /\ g_ops' = g_ops + 1
    /\ UNCHANGED <<g_states, notRelay>>

RelayNext == RelayTick \/ RelayToggle \/ RelayConfig

InitRelay ==
    /\ MainIdle /\ PathIdle /\ HandlesIdle /\ DrainIdle /\ ReaderIdle /\ CsvIdle
    /\ RelayIdle /\ DriveIdle /\ TimerIdle

SpecRelay == InitRelay /\ [][RelayNext]_vars

\* the PM2.5 of the selected source at the last tick
SourcePm == IF auto_source = "Indoor" THEN g_call.indoor ELSE g_call.outdoor

AllOn(states) == \A p \in DOMAIN states : states[p]

AllOff(states) == \A p \in DOMAIN states : ~states[p]

\* C19: relay auto-control with hysteresis: in auto mode with all relays
\* off a tick turns the relays on exactly when the source PM2.5 >=
\* on_threshold; with relays on it keeps them on exactly when PM2.5 >=
\* max(0, on_threshold - hysteresis); with auto mode off a tick changes no
\* relay.
C19_AutoControlHysteresis ==
    g_call.op = "tick"
      => /\ (auto_enabled /\ AllOff(g_call.before))
              => IF SourcePm >= auto_on_threshold THEN AllOn(g_states)
                 ELSE AllOff(g_states)
         /\ (auto_enabled /\ ~AllOff(g_call.before))
              => IF SourcePm >= Max(0, auto_on_threshold - auto_hysteresis)
                 THEN AllOn(g_states) ELSE AllOff(g_states)
         /\ ~auto_enabled => g_states = g_call.before

\* a tick in auto mode with the relays on and the PM2.5 inside the band
\* between the two thresholds: the relays stay on
C19_Witness ==
    /\ g_call.op = "tick" /\ auto_enabled
    /\ AllOn(g_call.before) /\ AllOn(g_states)
    /\ SourcePm < auto_on_threshold
    /\ SourcePm >= auto_on_threshold - auto_hysteresis

\* ------------------------------------------------------------- properties
\* the row of the put call a PutStep makes
PutRow == [ts |-> ts_iso, sensor |-> Head(todo)]

\* this step issued a bulk write
Wrote == Len(writes') = Len(writes) + 1

\* this step is a put call that returned to the loop
PutReturned == pc = "put" /\ pc' \in {"put", "sleep"}

\* the sink failed earlier in this run: at initialisation or in a bulk write
SinkFailedThisRun == initFailed \/ \E i \in 1..Len(writes) : ~writes[i].ok

\* the wait before the bulk write i + 1: the time since the bulk write i ended
WaitAfter(i) == writes[i + 1].at - writes[i].end

\* C1: no data loss on sink failure: when the bulk write of a flush fails,
\* every row of its batch is still in the buffer afterwards.
C1_NoLossOnSinkFailure ==
    [][(Wrote /\ ~Last(writes').ok)
         => \A r \in Range(Last(writes').rows) : r \in Range(buffer')]_vars

\* C2: durability: the rows pending when the process stops are pending after
\* the stop and after the restart.
C2_PendingSurvivesRestart ==
    [][(pc' = "exited" \/ pc = "exited")
         => \A r \in Range(buffer) : r \in Range(buffer')]_vars

\* C3: the ingestion loop never waits on a network write: no time of a tick
\* is spent by the main thread inside a bulk write.
C3_LoopNeverWaitsOnWrite == writeDelay = 0

\* C4: ingestion never stops due to sink failure: the process never ends on
\* an error of the sink, and once a tick has read its sensors its CSV row is
\* written, whatever the sink did at initialisation or does in this tick.
C4_IngestionNeverStops ==
    /\ exitBy # "exception"
    /\ pc \in {"put", "sleep"} => csv_rows # <<>> /\ Last(csv_rows) = ts_iso

\* a bulk write of this tick failed and the loop is at its sleep, the CSV row
\* of the tick written
C4_Witness ==
    /\ pc = "sleep"
    /\ writes # <<>> /\ ~Last(writes).ok
    /\ \E r \in Range(Last(writes).rows) : r.ts = ts_iso
    /\ Last(csv_rows) = ts_iso

\* C5: on SIGTERM or Ctrl+C, with rows buffered for an enabled sink, the
\* process issues at least one more bulk write before it exits.
C5_FinalDrainOnSignal ==
    [][(pc # "exited" /\ pc' = "exited" /\ exitBy' \in {"sigterm", "ctrlc"}
        /\ enabled /\ buffer # <<>>)
         => Len(writes') > Len(writes)]_vars

\* C7: backoff monotonicity with reset: after two consecutive failed bulk
\* writes the wait before the next attempt is longer than the wait before
\* (or at the cap), and the wait after a successful write is no longer than
\* any wait after a failed one.
C7_BackoffMonotoneWithReset ==
    /\ \A i \in 1..(Len(writes) - 2) :
          (~writes[i].ok /\ ~writes[i + 1].ok)
            => (WaitAfter(i + 1) > WaitAfter(i) \/ WaitAfter(i + 1) >= BackoffCap)
    /\ \A i, j \in 1..(Len(writes) - 1) :
          (writes[i].ok /\ ~writes[j].ok) => WaitAfter(i) <= WaitAfter(j)

\* C8: after a failure of the sink (at initialisation or in a write) a row
\* handed to put is not discarded: it is in the buffer, or it was written by
\* a successful bulk write of that very put.
C8_RowsKeptAfterSinkFailure ==
    [][(PutReturned /\ SinkFailedThisRun)
         => \/ PutRow \in Range(buffer')
            \/ (Wrote /\ Last(writes').ok /\ PutRow \in Range(Last(writes').rows))]_vars

\* C9: at-most-once identity: the buffer never holds two entries of the same
\* (device id, timestamp, sensor).
C9_AtMostOnceIdentity ==
    \A i, j \in 1..Len(buffer) :
        (buffer[i].ts = buffer[j].ts /\ buffer[i].sensor = buffer[j].sensor)
          => i = j

\* C13: with no remote URL configured (or no Firebase library) the sink is
\* disabled: the buffer stays empty and no bulk write is issued, while every
\* tick of the main loop still appends its CSV row.
C13_DisabledSinkIsInert ==
    ~urlSet
      => /\ ~enabled /\ buffer = <<>> /\ writes = <<>>
         /\ pc \in {"put", "sleep"} => csv_rows # <<>> /\ Last(csv_rows) = ts_iso

\* no URL, two ticks done, the put calls of the second tick made
C13_Witness ==
    /\ ~urlSet /\ pc = "sleep"
    /\ Len(csv_rows) = 2
    /\ \E r \in Readers : last_ok[r]

\* ------------------------------------ properties of the sink taken alone
\* the buffer as put left it before any flush of the same call
AfterPut == IF d_call.wrote THEN d_call.batch ELSE d_buffer

RECURSIVE Flatten(_)
Flatten(ss) == IF ss = <<>> THEN <<>> ELSE Head(ss) \o Flatten(Tail(ss))

\* the place of file f in the queue q
Pos(q, f) == CHOOSE i \in 1..Len(q) : q[i] = f

\* C11: the buffer is capped: after any sequence of put and flush calls, for
\* every max_buffer and batch_size, it holds no more than max_buffer rows.
C11_BufferCapped == Len(d_buffer) <= d_cfg.max_buffer

\* C12: when put finds the buffer at its cap, the rows it keeps are a suffix
\* of the previous buffer in unchanged order (the oldest rows are the ones
\* discarded), and the new row comes after them.
C12_DropsOldest ==
    (d_call.op = "put" /\ d_cfg.enabled /\ d_call.full)
      => /\ AfterPut # <<>>
         /\ Last(AfterPut) = d_call.row
         /\ \E k \in 0..Len(d_call.before) :
               SubSeq(AfterPut, 1, Len(AfterPut) - 1)
                 = SubSeq(d_call.before, k + 1, Len(d_call.before))

\* a put that found three rows at a cap of 3 and kept the two newest
C12_Witness ==
    /\ d_call.op = "put" /\ d_call.full
    /\ Len(d_call.before) = 3
    /\ Len(AfterPut) = 3

C17_FifoDrainOrder ==
    /\ LET f == Flatten(d_sent) \o d_buffer
       IN  \A i, j \in 1..Len(f) : i < j => f[i] < f[j]
    /\ \A i \in 1..Len(q_call.attempts) : q_call.attempts[i] \in Range(q_call.before)
    /\ \A i, j \in 1..Len(q_call.attempts) :
          i < j => Pos(q_call.before, q_call.attempts[i])
                     < Pos(q_call.before, q_call.attempts[j])

\* two bulk writes issued, and a process_queue call that tried two files
C17_Witness ==
    /\ Len(d_sent) >= 2
    /\ Len(q_call.attempts) >= 2

\* ------------------------------------------- the Drive uploader taken alone
\* DriveUploader of src/drive_hook.py as the hooks build and call it.  The
\* queue file and the manifest file are at the paths gdrive_setup gives and
\* their writes succeed; every file is younger than recent_days.

\* os.path.abspath(path)
AbsPath(p) == [abs |-> TRUE, name |-> p.name]

AbsPaths == {[abs |-> TRUE, name |-> f] : f \in DriveFiles}

\* pdir.glob("*.csv") lists the directory in this order
DriveListing == <<"d1.csv", "d2.csv", "d3.csv">>

\* a file the main loop has written
NewFile == [exists |-> TRUE, size |-> 1, mtime |-> 1, md5 |-> 1]

\* self._manifest.get(p) of a path without entry
NoEntry == [has |-> FALSE, size |-> 0, mtime |-> 0, md5 |-> 0, file_id |-> ""]

NotSeen == [ok |-> FALSE, size |-> 0, mtime |-> 0, md5 |-> 0]

\* what the queue file holds at start: nothing, or the queue a run left
DriveQueueLoads ==
    {<<[abs |-> TRUE, name |-> "d2.csv"], [abs |-> TRUE, name |-> "d1.csv"]>>,
     <<[abs |-> TRUE, name |-> "d1.csv"], [abs |-> TRUE, name |-> "d2.csv"],
       [abs |-> TRUE, name |-> "d3.csv"]>>}

\* the settings gdrive_setup reads: Drive switched off; the defaults
\* (skip_unchanged, no MD5, at most 10 files in a sync); MD5 tracked and at
\* most 2 files in a sync; no skipping of unchanged files
DriveConfigs ==
    {[enabled |-> FALSE, skip_unchanged |-> TRUE, use_md5 |-> FALSE, max_files |-> 10],
     [enabled |-> TRUE, skip_unchanged |-> TRUE, use_md5 |-> FALSE, max_files |-> 10],
     [enabled |-> TRUE, skip_unchanged |-> TRUE, use_md5 |-> TRUE, max_files |-> 2],
     [enabled |-> TRUE, skip_unchanged |-> FALSE, use_md5 |-> FALSE, max_files |-> 2]}

\* the paths handed to enqueue and to upload_now, and the file that changes
EnqueuePaths == {[abs |-> FALSE, name |-> "d3.csv"], [abs |-> TRUE, name |-> "d3.csv"],
                 [abs |-> FALSE, name |-> "d1.csv"]}

UploadPaths == {[abs |-> TRUE, name |-> "d1.csv"]}

ChangedFiles == {"d1.csv"}

\* the Drive service during one call: every call succeeds, every call
\* raises, the calls for d1.csv raise
DriveOutcomes ==
    {[f \in DriveFiles |-> TRUE], [f \in DriveFiles |-> FALSE],
     [f \in DriveFiles |-> f # "d1.csv"]}

\* DriveUploader._load_queue
LoadQueue(qfile) == IF qfile.present THEN qfile.paths ELSE <<>>

\* DriveUploader._sig(path): size, int(mtime), and the MD5 when use_md5 is
\* on (0 stands for no "md5" key)
sig(cfg, files, p) ==
    LET f == files[p.name]
    IN  [size |-> f.size, mtime |-> f.mtime,
         md5 |-> IF cfg.use_md5 THEN f.md5 ELSE 0]

\* _unchanged looking the manifest up under a key that upload_now never
\* writes: no entry is found
unchanged_lookup_misses(cfg, manifest, files, path) ==
    FALSE

\* DriveUploader._unchanged(path)
unchanged(cfg, manifest, files, path) ==
    LET p   == AbsPath(path)
        old == manifest[p]
        new == sig(cfg, files, p)
    IN  IF ~cfg.skip_unchanged THEN FALSE
        ELSE IF ~old.has THEN FALSE
        ELSE /\ old.size = new.size /\ old.mtime = new.mtime
             /\ (cfg.use_md5 => old.md5 = new.md5)

\* DriveUploader.upload_now(path); driveOk: the calls of the Drive service
\* succeed.  ret is "ok" (True), "false" (False) or "raise"; api lists the
\* files().create / files().update calls issued
upload_now(cfg, files, manifest, remote, path, driveOk) ==
    LET p    == AbsPath(path)
        kind == IF manifest[p].has \/ p.name \in remote THEN "update" ELSE "create"
        s    == sig(cfg, files, p)
    IN  IF ~cfg.enabled \/ ~files[path.name].exists
        THEN [ret |-> "false", manifest |-> manifest, remote |-> remote, api |-> <<>>]
        ELSE IF cfg.skip_unchanged /\ unchanged(cfg, manifest, files, p)
        THEN [ret |-> "ok", manifest |-> manifest, remote |-> remote, api |-> <<>>]
        ELSE IF ~driveOk
        THEN [ret |-> "raise", manifest |-> manifest, remote |-> remote,
              api |-> <<[op |-> kind, name |-> p.name, ok |-> FALSE]>>]
        ELSE [ret |-> "ok",
              manifest |-> [manifest EXCEPT ![p] =
                              [has |-> TRUE, size |-> s.size, mtime |-> s.mtime,
                               md5 |-> s.md5, file_id |-> p.name]],
              remote |-> remote \cup {p.name},
              api |-> <<[op |-> kind, name |-> p.name, ok |-> TRUE]>>]

RECURSIVE UploadAll(_, _, _, _, _, _)
\* the upload_now calls of one process_queue call, in order: the manifest and
\* the Drive folder after them, the Drive calls issued, the paths that
\* returned True
UploadAll(cfg, files, manifest, remote, paths, drive) ==
    IF paths = <<>>
    THEN [manifest |-> manifest, remote |-> remote, api |-> <<>>, oks |-> {}]
    ELSE LET p    == Head(paths)
             r    == upload_now(cfg, files, manifest, remote, p, drive[p.name])
             rest == UploadAll(cfg, files, r.manifest, r.remote, Tail(paths), drive)
         IN  [manifest |-> rest.manifest, remote |-> rest.remote,
              api |-> r.api \o rest.api,
              oks |-> (IF r.ret = "ok" THEN {p} ELSE {}) \cup rest.oks]

\* process_queue without its _save_queue
process_queue_no_save(cfg, files, manifest, remote, queue, qfile, max_items, drive) ==
    LET outcome == [p \in Range(queue) |->
                      upload_now(cfg, files, manifest, remote, p, drive[p.name]).ret]
        r == ProcessQueue(cfg.enabled, queue, max_items, outcome)
        u == UploadAll(cfg, files, manifest, remote, r.attempts, drive)
    IN  [queue |-> r.newq, attempts |-> r.attempts, manifest |-> u.manifest,
         remote |-> u.remote, api |-> u.api, oks |-> u.oks, qfile |-> qfile]

\* DriveUploader.process_queue(max_items) with upload_now as it is: drive
\* tells for each file whether the Drive calls for it succeed
process_queue(cfg, files, manifest, remote, queue, qfile, max_items, drive) ==
    LET outcome == [p \in Range(queue) |->
                      upload_now(cfg, files, manifest, remote, p, drive[p.name]).ret]
        r == ProcessQueue(cfg.enabled, queue, max_items, outcome)
        u == UploadAll(cfg, files, manifest, remote, r.attempts, drive)
    IN  [queue |-> r.newq, attempts |-> r.attempts, manifest |-> u.manifest,
         remote |-> u.remote, api |-> u.api, oks |-> u.oks,
         qfile |-> IF cfg.enabled /\ queue # <<>>
                   THEN [present |-> TRUE, paths |-> r.newq] ELSE qfile]

\* DriveUploader.enqueue(path) with its _save_queue
enqueue(files, queue, qfile, path) ==
    LET q == Enqueue(queue, AbsPath(path), files[path.name].exists)
    IN  [queue |-> q,
         qfile |-> IF q # queue THEN [present |-> TRUE, paths |-> q] ELSE qfile]

\* sorted(pdir.glob("*.csv"), key=mtime, reverse=True): the files that exist,
\* the youngest first, files of one mtime in the order of the listing
SortedByMtime(files) ==
    LET names == {f \in DOMAIN files : files[f].exists}
        idx(f) == CHOOSE i \in 1..Len(DriveListing) : DriveListing[i] = f
    IN  CHOOSE s \in [1..Cardinality(names) -> names] :
          \A i, j \in 1..Cardinality(names) :
             i < j => /\ s[i] # s[j]
                      /\ \/ files[s[i]].mtime > files[s[j]].mtime
                         \/ /\ files[s[i]].mtime = files[s[j]].mtime
                            /\ idx(s[i]) < idx(s[j])

RECURSIVE SyncEnqueue(_, _, _, _, _, _)
\* the for loop of sync_local_csvs: unchanged files are skipped, the others
\* are handed to enqueue by their path under csv_dir
SyncEnqueue(cfg, files, manifest, queue, qfile, names) ==
    IF names = <<>> THEN [queue |-> queue, qfile |-> qfile]
    ELSE LET p == [abs |-> FALSE, name |-> Head(names)]
             e == IF cfg.skip_unchanged /\ unchanged(cfg, manifest, files, p)
                  THEN [queue |-> queue, qfile |-> qfile]
                  ELSE enqueue(files, queue, qfile, p)
         IN  SyncEnqueue(cfg, files, manifest, e.queue, e.qfile, Tail(names))

\* DriveUploader.sync_local_csvs(csv_dir)
sync_local_csvs(cfg, files, manifest, remote, queue, qfile, drive) ==
    LET all   == SortedByMtime(files)
        lim   == IF cfg.max_files > 0 /\ Len(all) > cfg.max_files
                 THEN SubSeq(all, 1, cfg.max_files) ELSE all
        e     == SyncEnqueue(cfg, files, manifest, queue, qfile, lim)
    IN  process_queue(cfg, files, manifest, remote, e.queue, e.qfile,
                      DefaultMaxItems, drive)

\* what happens to a file on the disk: a row is appended a second or more
\* after the last change, the file is rewritten at the same size within the
\* second of the last change, the file is deleted
FsChange(f, kind) ==
    IF kind = "delete" THEN [f EXCEPT !.exists = FALSE]
    ELSE [exists |-> f.exists,
          size   |-> IF kind = "append" THEN f.size + 1 ELSE f.size,
          mtime  |-> IF kind = "append" THEN f.mtime + 1 ELSE f.mtime,
          md5    |-> f.md5 + 1]

\* the files as the upload_now calls that returned True found them
SeenAfter(seen, files, oks) ==
    [f \in DOMAIN seen |->
        IF [abs |-> TRUE, name |-> f] \in oks
        THEN [ok |-> TRUE, size |-> files[f].size, mtime |-> files[f].mtime,
              md5 |-> files[f].md5]
        ELSE seen[f]]

\* DriveUploader.__init__ has run: the uploader is enabled or not (switched
\* off, or its initialisation failed); an enabled one has loaded its queue
DriveInit ==
    /\ u_cfg \in DriveConfigs
    /\ u_files = [f \in DriveFiles |-> NewFile]
    /\ u_manifest = [p \in AbsPaths |-> NoEntry]
    /\ u_remote = {}
    /\ u_qfile \in {[present |-> FALSE, paths |-> <<>>]}
                     \cup {[present |-> TRUE, paths |-> q] : q \in DriveQueueLoads}
    /\ u_queue = IF u_cfg.enabled THEN LoadQueue(u_qfile) ELSE <<>>
    /\ u_seen = [f \in DriveFiles |-> NotSeen]
    /\ u_call = NoDriveCall /\ u_calls = 0

\* the hooks call the uploader only when uploader.enabled holds
\* uploader.enqueue(path)
UEnqueue ==
    /\ u_cfg.enabled /\ u_calls < MaxDriveOps
    /\ \E path \in EnqueuePaths :
         LET e == enqueue(u_files, u_queue, u_qfile, path)
         IN  /\ u_queue' = e.queue /\ u_qfile' = e.qfile
             /\ u_call' = [NoDriveCall EXCEPT !.op = "enqueue", !.path = path,
                              !.before = u_queue, !.mbefore = u_manifest,
                              !.sbefore = u_seen]
    /\ u_calls' = u_calls + 1
    /\ UNCHANGED <<u_cfg, u_files, u_manifest, u_remote, u_seen, notDrive>>

\* uploader.process_queue(max_items)
UProcess ==
    /\ u_cfg.enabled /\ u_calls < MaxDriveOps
    /\ \E m \in MaxItemsChoices, drive \in DriveOutcomes :
         LET r == process_queue(u_cfg, u_files, u_manifest, u_remote, u_queue,
                                u_qfile, m, drive)
         IN  /\ u_queue' = r.queue /\ u_qfile' = r.qfile
             /\ u_manifest' = r.manifest /\ u_remote' = r.remote
             /\ u_seen' = SeenAfter(u_seen, u_files, r.oks)
             /\ u_call' = [NoDriveCall EXCEPT !.op = "process", !.max_items = m,
                              !.before = u_queue, !.attempts = r.attempts,
                              !.oks = r.oks, !.api = r.api,
                              !.mbefore = u_manifest, !.sbefore = u_seen]
    /\ u_calls' = u_calls + 1
    /\ UNCHANGED <<u_cfg, u_files, notDrive>>

\* uploader.sync_local_csvs(csv_dir)
USync ==
    /\ u_cfg.enabled /\ u_calls < MaxDriveOps
    /\ \E drive \in DriveOutcomes :
         LET r == sync_local_csvs(u_cfg, u_files, u_manifest, u_remote, u_queue,
                                  u_qfile, drive)
         IN  /\ u_queue' = r.queue /\ u_qfile' = r.qfile
             /\ u_manifest' = r.manifest /\ u_remote' = r.remote
             /\ u_seen' = SeenAfter(u_seen, u_files, r.oks)
             /\ u_call' = [NoDriveCall EXCEPT !.op = "sync",
                              !.max_items = DefaultMaxItems,
                              !.before = u_queue, !.attempts = r.attempts,
                              !.oks = r.oks, !.api = r.api,
                              !.mbefore = u_manifest, !.sbefore = u_seen]
    /\ u_calls' = u_calls + 1
    /\ UNCHANGED <<u_cfg, u_files, notDrive>>

\* uploader.upload_now(path)
UUpload ==
    /\ u_cfg.enabled /\ u_calls < MaxDriveOps
    /\ \E path \in UploadPaths, driveOk \in BOOLEAN :
         LET r == upload_now(u_cfg, u_files, u_manifest, u_remote, path, driveOk)
         IN  /\ u_manifest' = r.manifest /\ u_remote' = r.remote
             /\ u_seen' = SeenAfter(u_seen, u_files,
                                    IF r.ret = "ok" THEN {path} ELSE {})
             /\ u_call' = [NoDriveCall EXCEPT !.op = "upload", !.path = path,
                              !.before = u_queue, !.api = r.api, !.ret = r.ret,
                              !.mbefore = u_manifest, !.sbefore = u_seen]
    /\ u_calls' = u_calls + 1
    /\ UNCHANGED <<u_cfg, u_files, u_queue, u_qfile, notDrive>>

\* the main loop, or somebody else, changes a file of the CSV directory
UFileChange ==
    /\ u_calls < MaxDriveOps
    /\ \E f \in ChangedFiles, kind \in {"append", "rewrite", "delete"} :
         /\ u_files[f].exists
         /\ u_files' = [u_files EXCEPT ![f] = FsChange(u_files[f], kind)]
    /\ u_calls' = u_calls + 1
    /\ UNCHANGED <<u_cfg, u_manifest, u_remote, u_queue, u_qfile, u_seen, u_call,
                   notDrive>>

DriveNext == UEnqueue \/ UProcess \/ USync \/ UUpload \/ UFileChange

InitDrive == MainIdle /\ PathIdle /\ HandlesIdle /\ DrainIdle /\ ReaderIdle /\ CsvIdle
    /\ RelayIdle /\ DriveInit /\ TimerIdle

SpecDrive == InitDrive /\ [][DriveNext]_vars

\* the Drive service whose calls always succeed
AllOk == [f \in DriveFiles |-> TRUE]

\* uploader.process_queue(max_items) under a Drive service whose calls succeed
LProcess ==
    /\ u_cfg.enabled
    /\ \E m \in MaxItemsChoices :
         LET r == process_queue(u_cfg, u_files, u_manifest, u_remote, u_queue,
                                u_qfile, m, AllOk)
         IN  /\ u_queue' = r.queue /\ u_qfile' = r.qfile
             /\ u_manifest' = r.manifest /\ u_remote' = r.remote
             /\ u_seen' = SeenAfter(u_seen, u_files, r.oks)
             /\ u_call' = [NoDriveCall EXCEPT !.op = "process", !.max_items = m,
                              !.before = u_queue, !.attempts = r.attempts,
                              !.oks = r.oks, !.api = r.api,
                              !.mbefore = u_manifest, !.sbefore = u_seen]
    /\ UNCHANGED <<u_cfg, u_files, u_calls, notDrive>>

DriveLiveNext == LProcess \/ UFileChange

\* the uploader whose process_queue is called again and again: a call that
\* can change something is made in the end
SpecDriveLive == InitDrive /\ [][DriveLiveNext]_vars /\ WF_vars(LProcess)

\* C21: process_queue(max_items=N) is a cap on the work of one call: the
\* call hands at most N files to upload_now, whether the uploads succeed or
\* fail.
C21_AttemptsCapped ==
    u_call.op = "process" => Len(u_call.attempts) <= u_call.max_items

\* the queue entries a process_queue call keeps: those whose upload_now did
\* not return True
KeptOf(before, oks) ==
    LET Kept(p) == p \notin oks
    IN  SelectSeq(before, Kept)

C25_QueueHasNoDuplicates ==
    \A i, j \in 1..Len(u_queue) :
       AbsPath(u_queue[i]) = AbsPath(u_queue[j]) => i = j

\* enqueue was called with the relative path of a file that was queued
C25_Witness ==
    /\ u_call.op = "enqueue" /\ ~u_call.path.abs
    /\ AbsPath(u_call.path) \in Range(u_call.before)
    /\ Len(u_queue) >= 2

\* the last call was upload_now(path) for a file that an earlier upload_now
\* returned True for, and whose size and mtime are what they were then
SecondUpload ==
    /\ u_call.op = "upload" /\ u_cfg.skip_unchanged
    /\ u_call.sbefore[u_call.path.name].ok
    /\ u_files[u_call.path.name].exists
    /\ u_files[u_call.path.name].size = u_call.sbefore[u_call.path.name].size
    /\ u_files[u_call.path.name].mtime = u_call.sbefore[u_call.path.name].mtime

\* the last call issued no Drive call, left the manifest alone, returned True
Skipped ==
    /\ u_call.api = <<>> /\ u_manifest = u_call.mbefore /\ u_call.ret = "ok"

\* the entries the last call wrote into the manifest belong to files it
\* uploaded with success
WrittenAfterUpload ==
    u_call.op # "none" =>
      \A p \in DOMAIN u_manifest :
         u_manifest[p] # u_call.mbefore[p]
           => \E i \in 1..Len(u_call.api) :
                 u_call.api[i].name = p.name /\ u_call.api[i].ok

\* C26 as the spec states it: with skip_unchanged on, a second upload_now of
\* a file whose size and mtime are unchanged issues no Drive call, leaves
\* the manifest unchanged and returns True; a manifest entry is written only
\* after a successful upload.
C26_UploadIdempotent ==
    /\ SecondUpload => Skipped
    /\ WrittenAfterUpload

\* C26 amended: the same, for a file whose size and mtime and, when use_md5
\* is on, whose MD5 are unchanged.
C26_UploadIdempotentMd5 ==
    /\ (SecondUpload /\ (u_cfg.use_md5 =>
           u_files[u_call.path.name].md5 = u_call.sbefore[u_call.path.name].md5))
         => Skipped
    /\ WrittenAfterUpload

\* a second upload_now of an uploaded file was skipped, under MD5 tracking
C26_Witness ==
    /\ SecondUpload /\ Skipped /\ u_cfg.use_md5
    /\ u_manifest[AbsPath(u_call.path)].has

\* C27: under a Drive service whose calls always succeed, repeated
\* process_queue calls empty the upload queue in the end, whatever happens
\* to the local files.
C27_QueueEventuallyEmpty == <>(u_queue = <<>>)

\* ------------------------------------------------ the timer of the dashboard
\* Tk runs the callbacks of one window one at a time.  A callback is an
\* after-job that falls due (_on_timer, and _sync_sizes in src/dashboard.py)
\* or the close button (on_close); on_close is also let in while update_data
\* runs, as it would be if update_data handed control back to Tk.

TimerJob(id) == [cb |-> "timer", id |-> id]

SyncJob(id) == [cb |-> "sync", id |-> id]

\* on_close, lines 629-633: self._running = False, after_cancel(self.job)
\* (an id Tk does not know raises, which is caught), self.job = None
stop_timer(st) ==
    [st EXCEPT !.running = FALSE,
               !.sched = {j \in st.sched : j.id # st.job},
               !.job = 0]

\* the window hidden and not destroyed
root_withdraw(st) ==
    st

\* self.root.destroy(): the window is gone, Tk deletes the commands of the
\* after-callbacks and mainloop returns, so no job can run any more
root_destroy(st) ==
    [st EXCEPT !.exists = FALSE, !.sched = {}]

\* PMDashboard.on_close; closing the readers and the relays is followed in
\* SpecHandles
on_close(st) == root_destroy(stop_timer(st))

\* the finally clause of _on_timer: the next round is scheduled while the
\* dashboard runs and the window exists (winfo_exists raises on a destroyed
\* window, and nothing is scheduled then either)
Reschedule(st, id) ==
    IF st.running /\ st.exists
    THEN [st EXCEPT !.job = id, !.sched = st.sched \cup {TimerJob(id)}]
    ELSE st

TimerState == [running |-> t_running, job |-> t_job, sched |-> t_sched,
               exists |-> t_exists]

\* PMDashboard.__init__ has run: the timer job is scheduled, and in
\* src/dashboard.py the one-shot job of _sync_sizes too
TimerInit ==
    /\ t_prog \in {"dashboard", "test"}
    /\ t_running = TRUE /\ t_job = 1 /\ t_exists = TRUE
    /\ t_sched = {TimerJob(1)} \cup (IF t_prog = "dashboard" THEN {SyncJob(2)} ELSE {})
    /\ t_pc = "idle" /\ t_closed = FALSE /\ t_late = FALSE
    /\ t_tick = 0 /\ t_next = 3

\* an after-job falls due: _sync_sizes runs, or _on_timer runs up to its
\* call of update_data
TFire ==
    /\ t_pc = "idle"
    /\ \E j \in t_sched :
         /\ t_sched' = t_sched \ {j}
         /\ IF j.cb = "timer" /\ t_running /\ t_exists
            THEN /\ t_pc' = "update"
                 /\ t_late' = (t_late \/ t_closed)
            ELSE UNCHANGED <<t_pc, t_late>>
    /\ UNCHANGED <<t_prog, t_running, t_job, t_exists, t_closed, t_tick, t_next,
                   notTimer>>

\* update_data returns, or raises before it counts the tick (read_once on
\* a reader whose port did not open), and the finally clause of _on_timer runs
TUpdateDone ==
    /\ t_pc = "update" /\ t_next <= MaxTimerJobs
    /\ \E raised \in BOOLEAN : t_tick' = IF raised THEN t_tick ELSE t_tick + 1
    /\ LET st == Reschedule(TimerState, t_next)
       IN  /\ t_job' = st.job /\ t_sched' = st.sched
           /\ t_next' = IF st.job = t_next THEN t_next + 1 ELSE t_next
    /\ t_pc' = "idle"
    /\ UNCHANGED <<t_prog, t_running, t_exists, t_closed, t_late, notTimer>>

\* the user closes the window: on_close
TClose ==
    /\ t_exists
    /\ LET st == on_close(TimerState)
       IN  /\ t_running' = st.running /\ t_job' = st.job
           /\ t_sched' = st.sched /\ t_exists' = st.exists
    /\ t_closed' = TRUE
    /\ UNCHANGED <<t_prog, t_pc, t_late, t_tick, t_next, notTimer>>

TimerNext == TFire \/ TUpdateDone \/ TClose

InitTimer == MainIdle /\ PathIdle /\ HandlesIdle /\ DrainIdle /\ ReaderIdle /\ CsvIdle
    /\ RelayIdle /\ DriveIdle /\ TimerInit

SpecTimer == InitTimer /\ [][TimerNext]_vars

\* C22: dashboard shutdown is quiescent: once on_close has run, update_data
\* is not entered again and no after-job remains scheduled, whether on_close
\* found the timer job pending or its callback running.
C22_QuiescentAfterClose ==
    t_closed => /\ ~t_late
                /\ t_sched = {}
                /\ t_job = 0 /\ ~t_running

\* on_close has run while update_data was running, after a first round
C22_Witness == t_closed /\ t_pc = "update" /\ t_next > 3

\* ---------------------------------------- a header split across two reads
\* the last two reads brought a frame whose header was split between them:
\* no header was buffered before, the first read ended with 0x42, the second
\* began with 0x4D and brought the other bytes of the frame
SplitFrameRead ==
    /\ r_call.op = "read"
    /\ r_call.pbytes # <<>> /\ r_call.bytes # <<>>
    /\ Find(r_call.pbefore \o r_call.pbytes) = 0
    /\ Last(r_call.pbytes) = HeaderBytes[1]
    /\ Head(r_call.bytes) = HeaderBytes[2]
    /\ Len(r_call.bytes) >= FrameLen - 1

\* the frame those two reads brought
SplitFrame == <<HeaderBytes[1]>> \o SubSeq(r_call.bytes, 1, FrameLen - 1)

\* C23: a frame whose header 0x42 0x4D is split across two consecutive
\* serial reads is decoded by PMSStreamReader.read once its other bytes
\* have arrived.
C23_SplitHeaderDecoded ==
    (r_prog = "backend" /\ SplitFrameRead)
      => (r_call.decoded /\ r_call.ret = Decode(SplitFrame))

\* ------------------------------------------- the relay panel, tick after tick
\* C28: in auto mode a relay is switched from off to on only when the source
\* PM2.5 >= on_threshold: a relay that is off before an auto tick with
\* PM2.5 < on_threshold is off after it, also when another relay was
\* switched on by hand before the tick.
C28_OnOnlyAboveThreshold ==
    (g_call.op = "tick" /\ auto_enabled /\ SourcePm < auto_on_threshold)
      => \A p \in DOMAIN g_states : ~g_call.before[p] => ~g_states[p]

\* the readings of the ticks that go on for ever
LivePm25Choices == {0, 3}

\* a timer tick, as RelayTick, of a dashboard that runs on and on
LTick ==
    /\ \E indoor \in LivePm25Choices, outdoor \in LivePm25Choices :
         /\ g_states' = auto_control(auto_enabled, auto_source, auto_on_threshold,
                                     auto_hysteresis, g_states, indoor, outdoor)
         /\ g_call' = [op |-> "tick", before |-> g_states, indoor |-> indoor,
                       outdoor |-> outdoor]
    /\ UNCHANGED <<auto_enabled, auto_source, auto_on_threshold, auto_hysteresis,
                   g_ops, notRelay>>

RelayLiveNext == LTick \/ RelayToggle \/ RelayConfig

\* the timer of the dashboard keeps firing: ticks go on
SpecRelayLive == InitRelay /\ [][RelayLiveNext]_vars /\ WF_vars(LTick)

\* from this state on: auto mode with on_threshold > 0, only ticks happen
\* and the source PM2.5 they read is 0
ReadsZero ==
    /\ auto_enabled /\ auto_on_threshold > 0
    /\ g_call.op = "tick" /\ SourcePm = 0

\* C29: with auto mode enabled and on_threshold > 0, for every hysteresis
\* setting: if the source PM2.5 stays at 0 from some tick on, the relays are
\* all off in the end.
C29_ZeroReadingTurnsOff == <>[]ReadsZero => <>[]AllOff(g_states)

====
